---- MODULE Spec2Model ----
(***************************************************************************)
(* Model of the contract scraper's change detector / storage layer         *)
(* (package storage) and of the table extraction of package scraper.       *)
(*                                                                         *)
(* The two SQL tables are modelled by their contents:                      *)
(*   contracts : a function from the stored identifiers (the primary key)  *)
(*               to the stored row;                                        *)
(*   changes   : the status_changes table in insertion order (the          *)
(*               AUTOINCREMENT id of a row is its position).               *)
(* Timestamps (scraped_at, updated_at, changed_at) are not modelled.       *)
(***************************************************************************)
EXTENDS Integers, Sequences, FiniteSets, TLC

VARIABLES contracts, changes, provenance, savedIds, last,
          renderedRows, renderedLinks, extracted, pass,
          splitting, enhancing, detail, nav, roundTrip, proc

vars ==
    <<contracts, changes, provenance, savedIds, last,
      renderedRows, renderedLinks, extracted, pass, splitting, enhancing, detail, nav,
      roundTrip, proc>>

(* The database, which no step of the scraper touches. *)
stored == <<contracts, changes, provenance, savedIds, last>>

(* The state of the scraper's steps other than the extraction passes. *)
run == <<splitting, enhancing, detail, nav, roundTrip, proc>>

(* The state of the extraction passes, which no storage operation touches. *)
page == <<renderedRows, renderedLinks, extracted, pass>>

-----------------------------------------------------------------------------
(* Bounds of the model.                                                    *)

MaxBatch == 2

MaxChanges == 1

(* Values the inputs are drawn from. The empty status is a legal value of  *)
(* the free-form status column (an empty status cell of the results page). *)
IDs == {"A1", "A2"}

Statuses == {"", "Publicada", "Adjudicada"}

Descriptions == {"d1", "d2"}

(* scraper.Contract, reduced to the key, the status and one other field    *)
(* standing for the columns that are copied verbatim.                      *)
Contract == [ID : IDs, Description : Descriptions, Status : Statuses]

RECURSIVE SeqsUpTo(_, _)
SeqsUpTo(S, n) ==
    IF n = 0 THEN {<< >>}
    ELSE LET shorter == SeqsUpTo(S, n - 1)
         IN  shorter \cup {Append(s, x) : s \in {t \in shorter : Len(t) = n - 1}, x \in S}

Batches == SeqsUpTo(Contract, MaxBatch)

(* The batches handed to CheckAndUpdateStatusChanges and GetNewContracts,  *)
(* which read the key and the status of a contract only: one description   *)
(* value is drawn for them.                                                *)
Observed == SeqsUpTo({c \in Contract : c.Description = "d1"}, MaxBatch)

-----------------------------------------------------------------------------
(* database/sql results.                                                   *)

ErrNil == "nil"

ErrNoRows == "sql.ErrNoRows"

ErrOther == "error"

(* The points of a transaction at which a statement can fail: kind names   *)
(* the statement, at the iteration of the loop (0 outside the loop).       *)
NoFail == [kind |-> "none", at |-> 0]

Fails ==
    {NoFail, [kind |-> "begin", at |-> 0], [kind |-> "commit", at |-> 0]}
    \cup {[kind |-> k, at |-> i] : k \in {"read", "write", "change"}, i \in 1..MaxBatch}

FailKindAt(fail, i) == IF fail.at = i THEN fail.kind ELSE "none"

-----------------------------------------------------------------------------
(* Table operations.                                                       *)

(* INSERT OR REPLACE INTO contracts: the row of the key is replaced whole. *)
Upsert(table, c) ==
    [id \in DOMAIN table \cup {c.ID} |-> IF id = c.ID THEN c ELSE table[id]]

(* UPDATE contracts SET status = ? WHERE id = ?                            *)
UpdateStatusKeepingStatus(row, status) == row

UpdateStatus(row, status) == [row EXCEPT !.Status = status]

(* SELECT status FROM contracts WHERE id = ? scanned into a fresh string:  *)
(* Scan leaves the zero value "" and returns sql.ErrNoRows without a row.  *)
ScanStatus(table, id) ==
    IF id \in DOMAIN table
    THEN [status |-> table[id].Status, err |-> ErrNil]
    ELSE [status |-> "", err |-> ErrNoRows]

StatusChange(id, old, new) ==
    [contract_id |-> id, old_status |-> old, new_status |-> new]

(* What the ghost history records about a key before a loop iteration.     *)
Seen(table, id) ==
    IF id \in DOMAIN table
    THEN [existed |-> TRUE, stored |-> table[id].Status, row |-> <<table[id]>>]
    ELSE [existed |-> FALSE, stored |-> "", row |-> << >>]

(* defer tx.Rollback(): a transaction that did not commit leaves the       *)
(* tables as they were when it began.                                      *)
RollbackKeepingWrites(before, tx) == [contracts |-> tx.contracts, changes |-> tx.changes,
                                      provenance |-> tx.provenance]

Rollback(before, tx) == before

-----------------------------------------------------------------------------
(* Storage.SaveContracts                                                   *)

(* The condition of line 158. err is the variable declared by the read of  *)
(* line 134 and assigned again by the Exec of line 140, so when line 158   *)
(* is reached it holds the result of the insert.                           *)
RecordsChangeWithoutEmptyGuard(err, currentStatus, status) ==
    err # ErrNoRows /\ currentStatus # status

RecordsChange(err, currentStatus, status) ==
    err # ErrNoRows /\ currentStatus # "" /\ currentStatus # status

(* One iteration of the loop of lines 131-165 on the transaction state tx. *)
SaveIteration(tx, c, failKind) ==
    LET seen     == Seen(tx.contracts, c.ID)
        read     == ScanStatus(tx.contracts, c.ID)
        execErr  == IF failKind = "write" THEN ErrOther ELSE ErrNil
        written  == [tx EXCEPT !.contracts = Upsert(tx.contracts, c)]
        records  == RecordsChange(execErr, read.status, c.Status)
        row      == StatusChange(c.ID, read.status, c.Status)
        recorded == [written EXCEPT
                        !.changes = Append(written.changes, row),
                        !.provenance = Append(written.provenance,
                                              [existed |-> seen.existed, stored |-> seen.stored])]
        entry(rows) ==
            [c |-> c, existed |-> seen.existed, stored |-> seen.stored,
             after |-> <<written.contracts[c.ID]>>, rows |-> rows]
    IN  IF failKind = "read" THEN [tx |-> tx, err |-> TRUE]
        ELSE IF failKind = "write" THEN [tx |-> tx, err |-> TRUE]
        ELSE IF records /\ failKind = "change" THEN [tx |-> written, err |-> TRUE]
        ELSE IF records
             THEN [tx |-> [recorded EXCEPT !.log = Append(tx.log, entry(<<row>>))],
                   err |-> FALSE]
             ELSE [tx |-> [written EXCEPT !.log = Append(tx.log, entry(<< >>))],
                   err |-> FALSE]

RECURSIVE SaveLoop(_, _, _, _)
SaveLoop(tx, batch, i, fail) ==
    IF i > Len(batch) THEN [tx |-> tx, err |-> FALSE]
    ELSE LET r == SaveIteration(tx, batch[i], FailKindAt(fail, i))
         IN  IF r.err THEN r ELSE SaveLoop(r.tx, batch, i + 1, fail)

(* The tables when the transaction begins, and the transaction's view.     *)
Begin == [contracts |-> contracts, changes |-> changes, provenance |-> provenance]

TxBegin == [contracts |-> contracts, changes |-> changes, provenance |-> provenance,
            log |-> << >>]

Wrote(tx) == tx.contracts # contracts \/ tx.changes # changes

(* What the caller gets back, with the ghost history of the call.          *)
Idle ==
    [op |-> "idle", err |-> FALSE, batch |-> << >>, log |-> << >>, result |-> << >>,
     startIds |-> {}, n0 |-> 0, wrote |-> FALSE]

Outcome(op, batch, log, result) ==
    [op |-> op, err |-> FALSE, batch |-> batch, log |-> log, result |-> result,
     startIds |-> DOMAIN contracts, n0 |-> Len(changes), wrote |-> FALSE]

Failed(op, wrote) ==
    [op |-> op, err |-> TRUE, batch |-> << >>, log |-> << >>, result |-> << >>,
     startIds |-> {}, n0 |-> 0, wrote |-> wrote]

BatchIds(batch) == {batch[i].ID : i \in DOMAIN batch}

SaveContracts(batch, fail) ==
    /\ last.op = "idle"
    /\ UNCHANGED <<page, run>>
    /\ fail.at <= Len(batch)
    /\ IF Len(batch) = 0
       THEN /\ fail = NoFail
            /\ last' = Outcome("SaveContracts", batch, << >>, << >>)
            /\ UNCHANGED <<contracts, changes, provenance, savedIds>>
       ELSE IF fail.kind = "begin"
       THEN /\ last' = Failed("SaveContracts", FALSE)
            /\ UNCHANGED <<contracts, changes, provenance, savedIds>>
       ELSE LET r      == SaveLoop(TxBegin, batch, 1, fail)
                failed == r.err \/ fail.kind = "commit"
                end    == IF failed THEN Rollback(Begin, r.tx) ELSE r.tx
            IN  /\ contracts' = end.contracts
                /\ changes' = end.changes
                /\ provenance' = end.provenance
                /\ savedIds' = IF failed THEN savedIds ELSE savedIds \cup BatchIds(batch)
                /\ last' = IF failed THEN Failed("SaveContracts", Wrote(r.tx))
                           ELSE Outcome("SaveContracts", batch, r.tx.log, << >>)

-----------------------------------------------------------------------------
(* Storage.CheckAndUpdateStatusChanges                                     *)

(* Line 223: a contract that is not in the database is skipped.            *)
SkipsNever(err) == FALSE

Skips(err) == err = ErrNoRows

(* One iteration of the loop of lines 219-244.                             *)
CheckIteration(tx, c, failKind) ==
    LET seen     == Seen(tx.contracts, c.ID)
        read     == ScanStatus(tx.contracts, c.ID)
        (* UPDATE ... WHERE id = ? changes the row of the key, if any *)
        updated  == [tx EXCEPT !.contracts =
                        [id \in DOMAIN tx.contracts |->
                            IF id = c.ID THEN UpdateStatus(tx.contracts[id], c.Status)
                            ELSE tx.contracts[id]]]
        row      == StatusChange(c.ID, read.status, c.Status)
        recorded == [updated EXCEPT
                        !.changes = Append(updated.changes, row),
                        !.provenance = Append(updated.provenance,
                                              [existed |-> seen.existed, stored |-> seen.stored])]
        entry(t, rows) ==
            [c |-> c, existed |-> seen.existed, stored |-> seen.stored,
             before |-> seen.row, after |-> Seen(t.contracts, c.ID).row, rows |-> rows]
    IN  IF failKind = "read" THEN [tx |-> tx, err |-> TRUE]
        ELSE IF Skips(read.err)
             THEN [tx |-> [tx EXCEPT !.log = Append(tx.log, entry(tx, << >>))], err |-> FALSE]
        ELSE IF read.status # c.Status
             THEN IF failKind = "write" THEN [tx |-> tx, err |-> TRUE]
                  ELSE IF failKind = "change" THEN [tx |-> updated, err |-> TRUE]
                  ELSE [tx |-> [recorded EXCEPT
                                   !.log = Append(tx.log, entry(recorded, <<row>>))],
                        err |-> FALSE]
        ELSE [tx |-> [tx EXCEPT !.log = Append(tx.log, entry(tx, << >>))], err |-> FALSE]

RECURSIVE CheckLoop(_, _, _, _)
CheckLoop(tx, batch, i, fail) ==
    IF i > Len(batch) THEN [tx |-> tx, err |-> FALSE]
    ELSE LET r == CheckIteration(tx, batch[i], FailKindAt(fail, i))
         IN  IF r.err THEN r ELSE CheckLoop(r.tx, batch, i + 1, fail)

CheckAndUpdateStatusChanges(allContracts, fail) ==
    /\ last.op = "idle"
    /\ UNCHANGED <<page, run>>
    /\ fail.at <= Len(allContracts)
    /\ IF Len(allContracts) = 0
       THEN /\ fail = NoFail
            /\ last' = Outcome("CheckAndUpdateStatusChanges", allContracts, << >>, << >>)
            /\ UNCHANGED <<contracts, changes, provenance, savedIds>>
       ELSE IF fail.kind = "begin"
       THEN /\ last' = Failed("CheckAndUpdateStatusChanges", FALSE)
            /\ UNCHANGED <<contracts, changes, provenance, savedIds>>
       ELSE LET r      == CheckLoop(TxBegin, allContracts, 1, fail)
                failed == r.err \/ fail.kind = "commit"
                end    == IF failed THEN Rollback(Begin, r.tx) ELSE r.tx
            IN  /\ contracts' = end.contracts
                /\ changes' = end.changes
                /\ provenance' = end.provenance
                /\ UNCHANGED savedIds
                /\ last' = IF failed THEN Failed("CheckAndUpdateStatusChanges", Wrote(r.tx))
                           ELSE Outcome("CheckAndUpdateStatusChanges", allContracts,
                                        r.tx.log, << >>)

-----------------------------------------------------------------------------
(* Storage.GetNewContracts and the queries                                 *)

(* SELECT COUNT( * ) FROM contracts WHERE id = ?  and  count > 0           *)
CountRows(table, id) == IF id \in DOMAIN table THEN 1 ELSE 0

contractExistsBySameStatus(table, c) ==
    c.ID \in DOMAIN table /\ table[c.ID].Status = c.Status

contractExists(table, c) == CountRows(table, c.ID) > 0

RECURSIVE NewContractsLoop(_, _, _)
NewContractsLoop(table, batch, i) ==
    IF i > Len(batch) THEN << >>
    ELSE (IF contractExists(table, batch[i]) THEN << >> ELSE <<batch[i]>>)
         \o NewContractsLoop(table, batch, i + 1)

(* fail: one of the existence queries fails and nil is returned with the   *)
(* error, whatever had been collected.                                     *)
GetNewContracts(batch, fail) ==
    /\ last.op = "idle"
    /\ UNCHANGED <<page, run>>
    /\ fail => Len(batch) > 0
    /\ last' = IF fail THEN Failed("GetNewContracts", FALSE)
               ELSE Outcome("GetNewContracts", batch, << >>,
                            NewContractsLoop(contracts, batch, 1))
    /\ UNCHANGED <<contracts, changes, provenance, savedIds>>

GetContractByID(id, fail) ==
    /\ last.op = "idle"
    /\ UNCHANGED <<page, run>>
    /\ last' = IF fail THEN Failed("GetContractByID", FALSE)
               ELSE Outcome("GetContractByID", <<id>>, << >>, Seen(contracts, id).row)
    /\ UNCHANGED <<contracts, changes, provenance, savedIds>>

GetContractCount(fail) ==
    /\ last.op = "idle"
    /\ UNCHANGED <<page, run>>
    /\ last' = IF fail THEN Failed("GetContractCount", FALSE)
               ELSE Outcome("GetContractCount", << >>, << >>,
                            <<Cardinality(DOMAIN contracts)>>)
    /\ UNCHANGED <<contracts, changes, provenance, savedIds>>

-----------------------------------------------------------------------------
(* Storage.DeleteContract and Storage.DeleteAllContracts                   *)

(* DELETE FROM contracts [WHERE id = ?]: only the contracts table is named *)
(* (foreign keys are declared without ON DELETE and are not enforced by    *)
(* the connection the code opens).                                         *)
DeleteCascading(tables, ids) ==
    LET keep == {k \in DOMAIN tables.changes : tables.changes[k].contract_id \notin ids}
        F[k \in 0..Len(tables.changes)] ==
            IF k = 0 THEN << >>
            ELSE IF k \in keep THEN Append(F[k - 1], k) ELSE F[k - 1]
        kept == F[Len(tables.changes)]
    IN  [contracts  |-> [id \in DOMAIN tables.contracts \ ids |-> tables.contracts[id]],
         changes    |-> [j \in 1..Len(kept) |-> tables.changes[kept[j]]],
         provenance |-> [j \in 1..Len(kept) |-> tables.provenance[kept[j]]]]

DeleteRows(tables, ids) ==
    [tables EXCEPT !.contracts = [id \in DOMAIN tables.contracts \ ids |-> tables.contracts[id]]]

DeleteContract(contractID, fail) ==
    /\ last.op = "idle"
    /\ UNCHANGED <<page, run>>
    /\ IF fail
       THEN /\ last' = Failed("DeleteContract", FALSE)
            /\ UNCHANGED <<contracts, changes, provenance, savedIds>>
       ELSE LET end == DeleteRows(Begin, {contractID})
                rowsAffected == CountRows(contracts, contractID)
            IN  /\ contracts' = end.contracts
                /\ changes' = end.changes
                /\ provenance' = end.provenance
                /\ savedIds' = savedIds \ {contractID}
                /\ last' = IF rowsAffected = 0 THEN Failed("DeleteContract", FALSE)
                           ELSE Outcome("DeleteContract", <<contractID>>, << >>, << >>)

DeleteAllContracts(fail) ==
    /\ last.op = "idle"
    /\ UNCHANGED <<page, run>>
    /\ IF fail
       THEN /\ last' = Failed("DeleteAllContracts", FALSE)
            /\ UNCHANGED <<contracts, changes, provenance, savedIds>>
       ELSE LET end == DeleteRows(Begin, DOMAIN contracts)
            IN  /\ contracts' = end.contracts
                /\ changes' = end.changes
                /\ provenance' = end.provenance
                /\ savedIds' = {}
                /\ last' = Outcome("DeleteAllContracts", << >>, << >>, << >>)

(* The caller takes the result (processContracts, the dashboard handlers)  *)
(* and the storage is ready for the next call.                             *)
Return ==
    /\ last.op # "idle"
    /\ UNCHANGED <<page, run>>
    /\ last' = Idle
    /\ UNCHANGED <<contracts, changes, provenance, savedIds>>

-----------------------------------------------------------------------------
(* Text. A Go string is modelled as the sequence of its bytes: a printable *)
(* ASCII byte is written as its character, another byte as "xHH". The     *)
(* UTF-8 form of an accented Latin letter is "xC3" and one more byte; the  *)
(* letters of scraper.go's own literals are written there as the six bytes *)
(* E2 88 9A E2 89 A5 (the characters U+221A and U+2265, which have no      *)
(* case) where the page's vocabulary has the two bytes C3 B3.              *)

UpperAscii ==
    {"A", "B", "C", "D", "E", "F", "G", "H", "I", "J", "K", "L", "M",
     "N", "O", "P", "Q", "R", "S", "T", "U", "V", "W", "X", "Y", "Z"}

LowerAscii ==
    {"a", "b", "c", "d", "e", "f", "g", "h", "i", "j", "k", "l", "m",
     "n", "o", "p", "q", "r", "s", "t", "u", "v", "w", "x", "y", "z"}

Digits == {"0", "1", "2", "3", "4", "5", "6", "7", "8", "9"}

IsSpace(ch) == ch \in {" ", "x09", "x0A", "x0B", "x0C", "x0D"}

Slice(s, from, to) == SubSeq(s, from + 1, to)

RECURSIVE TrimLeft(_)
TrimLeft(s) == IF s # << >> /\ IsSpace(Head(s)) THEN TrimLeft(Tail(s)) ELSE s

RECURSIVE TrimRight(_)
TrimRight(s) ==
    IF s # << >> /\ IsSpace(s[Len(s)]) THEN TrimRight(SubSeq(s, 1, Len(s) - 1)) ELSE s

(* strings.TrimSpace *)
TrimSpace(s) == TrimRight(TrimLeft(s))

(* The lower-case form of the byte at position i of s: A-Z, and the second *)
(* byte of the two-byte form of an accented capital (after "xC3").         *)
LowerAt(s, i) ==
    LET ch == s[i]
    IN  IF i > 1 /\ s[i - 1] = "xC3"
        THEN CASE ch = "x81" -> "xA1" [] ch = "x89" -> "xA9" [] ch = "x8D" -> "xAD"
               [] ch = "x91" -> "xB1" [] ch = "x93" -> "xB3" [] ch = "x9A" -> "xBA"
               [] OTHER -> ch
        ELSE CASE
             ch = "A" -> "a" [] ch = "B" -> "b" [] ch = "C" -> "c" [] ch = "D" -> "d" []
             ch = "E" -> "e" [] ch = "F" -> "f" [] ch = "G" -> "g" [] ch = "H" -> "h" []
             ch = "I" -> "i" [] ch = "J" -> "j" [] ch = "K" -> "k" [] ch = "L" -> "l" []
             ch = "M" -> "m" [] ch = "N" -> "n" [] ch = "O" -> "o" [] ch = "P" -> "p" []
             ch = "Q" -> "q" [] ch = "R" -> "r" [] ch = "S" -> "s" [] ch = "T" -> "t" []
             ch = "U" -> "u" [] ch = "V" -> "v" [] ch = "W" -> "w" [] ch = "X" -> "x" []
             ch = "Y" -> "y" [] ch = "Z" -> "z"
          [] OTHER -> ch

(* strings.ToLower *)
ToLower(s) == [i \in 1..Len(s) |-> LowerAt(s, i)]

(* strings.EqualFold: equality under simple case folding. *)
EqualFold(s, t) ==
    /\ Len(s) = Len(t)
    /\ \A i \in 1..Len(s) : LowerAt(s, i) = LowerAt(t, i)

HasPrefixAt(s, sub, k) ==
    /\ k + Len(sub) <= Len(s)
    /\ \A j \in 1..Len(sub) : s[k + j] = sub[j]

(* strings.Index: the byte offset of the first occurrence, or -1. *)
Index(s, sub) ==
    LET at == {k \in 0..Len(s) : HasPrefixAt(s, sub, k)}
    IN  IF at = {} THEN -1 ELSE CHOOSE k \in at : \A m \in at : k <= m

(* strings.Contains *)
Contains(s, sub) == Index(s, sub) >= 0

(* strings.ContainsAny for a set of bytes *)
ContainsAny(s, chars) == \E i \in 1..Len(s) : s[i] \in chars

-----------------------------------------------------------------------------
(* CoreScraper.parseContractIDAndDescription                               *)

(* The identifier patterns, in their listed order. An element of a pattern *)
(* is a class of bytes with a repetition count.                            *)
patterns ==
    <<
      (* ^(\d{4,5}/\d{4}) *)
      <<[class |-> "digit", lit |-> "", min |-> 4, max |-> 5],
        [class |-> "lit", lit |-> "/", min |-> 1, max |-> 1],
        [class |-> "digit", lit |-> "", min |-> 4, max |-> 4]>>,
      (* ^(S-\d{5}-\d{4}) *)
      <<[class |-> "lit", lit |-> "S", min |-> 1, max |-> 1],
        [class |-> "lit", lit |-> "-", min |-> 1, max |-> 1],
        [class |-> "digit", lit |-> "", min |-> 5, max |-> 5],
        [class |-> "lit", lit |-> "-", min |-> 1, max |-> 1],
        [class |-> "digit", lit |-> "", min |-> 4, max |-> 4]>>,
      (* ^(\d{4}/\d{2}) *)
      <<[class |-> "digit", lit |-> "", min |-> 4, max |-> 4],
        [class |-> "lit", lit |-> "/", min |-> 1, max |-> 1],
        [class |-> "digit", lit |-> "", min |-> 2, max |-> 2]>>,
      (* ^([A-Z]-\d{5}-\d{4}) *)
      <<[class |-> "upper", lit |-> "", min |-> 1, max |-> 1],
        [class |-> "lit", lit |-> "-", min |-> 1, max |-> 1],
        [class |-> "digit", lit |-> "", min |-> 5, max |-> 5],
        [class |-> "lit", lit |-> "-", min |-> 1, max |-> 1],
        [class |-> "digit", lit |-> "", min |-> 4, max |-> 4]>>,
      (* ^(\d{4}-\d{2}) *)
      <<[class |-> "digit", lit |-> "", min |-> 4, max |-> 4],
        [class |-> "lit", lit |-> "-", min |-> 1, max |-> 1],
        [class |-> "digit", lit |-> "", min |-> 2, max |-> 2]>>,
      (* ^(\d{4}/[A-Z]+/\d{3}-\d{3}/\d{6}) *)
      <<[class |-> "digit", lit |-> "", min |-> 4, max |-> 4],
        [class |-> "lit", lit |-> "/", min |-> 1, max |-> 1],
        [class |-> "upper", lit |-> "", min |-> 1, max |-> -1],
        [class |-> "lit", lit |-> "/", min |-> 1, max |-> 1],
        [class |-> "digit", lit |-> "", min |-> 3, max |-> 3],
        [class |-> "lit", lit |-> "-", min |-> 1, max |-> 1],
        [class |-> "digit", lit |-> "", min |-> 3, max |-> 3],
        [class |-> "lit", lit |-> "/", min |-> 1, max |-> 1],
        [class |-> "digit", lit |-> "", min |-> 6, max |-> 6]>>,
      (* ^([A-Z]+ CH SU-\d{2}-\d{2}) *)
      <<[class |-> "upper", lit |-> "", min |-> 1, max |-> -1],
        [class |-> "lit", lit |-> " ", min |-> 1, max |-> 1],
        [class |-> "lit", lit |-> "C", min |-> 1, max |-> 1],
        [class |-> "lit", lit |-> "H", min |-> 1, max |-> 1],
        [class |-> "lit", lit |-> " ", min |-> 1, max |-> 1],
        [class |-> "lit", lit |-> "S", min |-> 1, max |-> 1],
        [class |-> "lit", lit |-> "U", min |-> 1, max |-> 1],
        [class |-> "lit", lit |-> "-", min |-> 1, max |-> 1],
        [class |-> "digit", lit |-> "", min |-> 2, max |-> 2],
        [class |-> "lit", lit |-> "-", min |-> 1, max |-> 1],
        [class |-> "digit", lit |-> "", min |-> 2, max |-> 2]>>,
      (* ^(\d{2}/\d{2}) *)
      <<[class |-> "digit", lit |-> "", min |-> 2, max |-> 2],
        [class |-> "lit", lit |-> "/", min |-> 1, max |-> 1],
        [class |-> "digit", lit |-> "", min |-> 2, max |-> 2]>>,
      (* ^(\d{2}/\d{2}\.-[A-Z]+) *)
      <<[class |-> "digit", lit |-> "", min |-> 2, max |-> 2],
        [class |-> "lit", lit |-> "/", min |-> 1, max |-> 1],
        [class |-> "digit", lit |-> "", min |-> 2, max |-> 2],
        [class |-> "lit", lit |-> ".", min |-> 1, max |-> 1],
        [class |-> "lit", lit |-> "-", min |-> 1, max |-> 1],
        [class |-> "upper", lit |-> "", min |-> 1, max |-> -1]>>,
      (* ^([A-Z]+\d{2}-\d{3}/\d{4}) *)
      <<[class |-> "upper", lit |-> "", min |-> 1, max |-> -1],
        [class |-> "digit", lit |-> "", min |-> 2, max |-> 2],
        [class |-> "lit", lit |-> "-", min |-> 1, max |-> 1],
        [class |-> "digit", lit |-> "", min |-> 3, max |-> 3],
        [class |-> "lit", lit |-> "/", min |-> 1, max |-> 1],
        [class |-> "digit", lit |-> "", min |-> 4, max |-> 4]>>
    >>

InClass(ch, e) ==
    CASE e.class = "digit" -> ch \in Digits
      [] e.class = "upper" -> ch \in UpperAscii
      [] OTHER -> ch = e.lit

(* The number of bytes of s from offset pos on that are in the class of e, *)
(* up to e.max (-1: any number).                                           *)
RECURSIVE Run(_, _, _, _)
Run(s, pos, e, n) ==
    IF (e.max = -1 \/ n < e.max) /\ pos + n < Len(s) /\ InClass(s[pos + n + 1], e)
    THEN Run(s, pos, e, n + 1) ELSE n

(* The end offset of the match of the elements k.. of pat at offset pos    *)
(* that the regexp package prefers (greedy repetitions, first alternative  *)
(* that lets the rest match), or -1.                                       *)
RECURSIVE MatchFrom(_, _, _, _)
RECURSIVE TryCounts(_, _, _, _, _)
MatchFrom(pat, k, s, pos) ==
    IF k > Len(pat) THEN pos
    ELSE TryCounts(pat, k, s, pos, Run(s, pos, pat[k], 0))

TryCounts(pat, k, s, pos, n) ==
    IF n < pat[k].min THEN -1
    ELSE LET r == MatchFrom(pat, k + 1, s, pos + n)
         IN  IF r # -1 THEN r ELSE TryCounts(pat, k, s, pos, n - 1)

(* re.FindStringSubmatch of an anchored pattern: the length of match[1]. *)
FindSubmatch(pat, s) == MatchFrom(pat, 1, s, 0)

descriptionStarters ==
    <<<<"S", "u", "m", "i", "n", "i", "s", "t", "r", "o">>,
      <<"A", "d", "q", "u", "i", "s", "i", "c", "i", "xE2", "x88", "x9A", "xE2", "x89", "xA5", "n">>,
      <<"C", "o", "n", "t", "r", "a", "t", "a", "c", "i", "xE2", "x88", "x9A", "xE2", "x89", "xA5", "n">>,
      <<"S", "e", "r", "v", "i", "c", "i", "o", "s">>,
      <<"I", "n", "s", "t", "a", "l", "a", "c", "i", "xE2", "x88", "x9A", "xE2", "x89", "xA5", "n">>,
      <<"A", "l", "q", "u", "i", "l", "e", "r">>,
      <<"C", "o", "m", "p", "r", "a">>,
      <<"A", "d", "j", "u", "d", "i", "c", "a", "c", "i", "xE2", "x88", "x9A", "xE2", "x89", "xA5", "n">>,
      <<"E", "j", "e", "c", "u", "c", "i", "xE2", "x88", "x9A", "xE2", "x89", "xA5", "n">>,
      <<"D", "e", "s", "a", "r", "r", "o", "l", "l", "o">>,
      <<"I", "m", "p", "l", "e", "m", "e", "n", "t", "a", "c", "i", "xE2", "x88", "x9A", "xE2", "x89", "xA5", "n">>,
      <<"M", "a", "n", "t", "e", "n", "i", "m", "i", "e", "n", "t", "o">>,
      <<"R", "e", "p", "a", "r", "a", "c", "i", "xE2", "x88", "x9A", "xE2", "x89", "xA5", "n">>,
      <<"R", "e", "n", "o", "v", "a", "c", "i", "xE2", "x88", "x9A", "xE2", "x89", "xA5", "n">>,
      <<"A", "m", "p", "l", "i", "a", "c", "i", "xE2", "x88", "x9A", "xE2", "x89", "xA5", "n">>,
      <<"M", "e", "j", "o", "r", "a">>,
      <<"M", "o", "d", "e", "r", "n", "i", "z", "a", "c", "i", "xE2", "x88", "x9A", "xE2", "x89", "xA5", "n">>,
      <<"E", "q", "u", "i", "p", "a", "m", "i", "e", "n", "t", "o">>,
      <<"D", "o", "t", "a", "c", "i", "xE2", "x88", "x9A", "xE2", "x89", "xA5", "n">>>>

Split(id, description) == [id |-> id, description |-> description]

LooksLikeID(potentialID) ==
    /\ Len(potentialID) > 0
    /\ Len(potentialID) <= 50
    /\ \/ ContainsAny(potentialID, Digits)
       \/ Contains(potentialID, <<"/">>)
       \/ Contains(potentialID, <<"-">>)

(* Lines 90-97: the first pattern of the list that matches decides. *)
RECURSIVE ByPattern(_, _)
ByPattern(s, k) ==
    IF k > Len(patterns) THEN << >>
    ELSE LET end == FindSubmatch(patterns[k], s)
         IN  IF end > 0
             THEN <<Split(Slice(s, 0, end), TrimSpace(Slice(s, end, Len(s))))>>
             ELSE ByPattern(s, k + 1)

(* Lines 109-124: the starters are tried in their listed order; a starter  *)
(* decides when its first occurrence is not at offset 0 and the text       *)
(* before it looks like an identifier.                                     *)
RECURSIVE ByStarter(_, _)
ByStarter(s, k) ==
    IF k > Len(descriptionStarters) THEN << >>
    ELSE LET idx == Index(s, descriptionStarters[k])
             potentialID == TrimSpace(Slice(s, 0, idx))
         IN  IF idx > 0 /\ LooksLikeID(potentialID)
             THEN <<Split(potentialID, TrimSpace(Slice(s, idx, Len(s))))>>
             ELSE ByStarter(s, k + 1)

IsAlnumAscii(ch) == ch \in UpperAscii \/ ch \in LowerAscii \/ ch \in Digits

(* Lines 128-143: the first capital letter that follows a byte that is no  *)
(* ASCII letter or digit, with at most 50 bytes (trimmed) before it.       *)
RECURSIVE ByCapital(_, _)
ByCapital(s, i) ==
    IF i >= Len(s) THEN << >>
    ELSE LET potentialID == TrimSpace(Slice(s, 0, i))
         IN  IF /\ s[i + 1] \in UpperAscii
                /\ ~IsAlnumAscii(s[i])
                /\ Len(potentialID) > 0
                /\ Len(potentialID) <= 50
             THEN <<Split(potentialID, TrimSpace(Slice(s, i, Len(s))))>>
             ELSE ByCapital(s, i + 1)

(* Lines 146-152. *)
ByPrefix(s) ==
    IF Len(s) > 30 THEN Split(Slice(s, 0, 30), Slice(s, 30, Len(s)))
    ELSE Split(s, << >>)

(* The step of the cascade that decides the split of fullText. *)
DecidingStep(fullText) ==
    LET s == TrimSpace(fullText)
    IN  IF ByPattern(s, 1) # << >> THEN "pattern"
        ELSE IF ByStarter(s, 1) # << >> THEN "starter"
        ELSE IF ByCapital(s, 1) # << >> THEN "capital"
        ELSE "prefix"

parseStarterBeforePattern(fullText) ==
    LET s == TrimSpace(fullText)
        p == ByPattern(s, 1)
        w == ByStarter(s, 1)
        c == ByCapital(s, 1)
    IN  IF w # << >> THEN w[1]
        ELSE IF p # << >> THEN p[1]
        ELSE IF c # << >> THEN c[1]
        ELSE ByPrefix(s)

parseContractIDAndDescription(fullText) ==
    LET s == TrimSpace(fullText)
        p == ByPattern(s, 1)
        w == ByStarter(s, 1)
        c == ByCapital(s, 1)
    IN  IF p # << >> THEN p[1]
        ELSE IF w # << >> THEN w[1]
        ELSE IF c # << >> THEN c[1]
        ELSE ByPrefix(s)

-----------------------------------------------------------------------------
(* Extraction of the results table.                                        *)

headerKeywords ==
    {<<"e", "x", "p", "e", "d", "i", "e", "n", "t", "e">>,
     <<"t", "i", "p", "o">>,
     <<"e", "s", "t", "a", "d", "o">>,
     <<"i", "m", "p", "o", "r", "t", "e">>,
     <<"p", "r", "e", "s", "e", "n", "t", "a", "c", "i", "xE2", "x88", "x9A", "xE2", "x89", "xA5", "n">>,
     <<"xE2", "x88", "x9A", "xE2", "x89", "xA5", "r", "g", "a", "n", "o">>}

(* The header test of the first row (lines 277-294, 523-540). *)
IsHeader(row) ==
    \E j \in 1..Len(row) : \E kw \in headerKeywords :
        Contains(ToLower(TrimSpace(row[j])), kw)

Publicada == <<"P", "u", "b", "l", "i", "c", "a", "d", "a">>

EvaluacionPrevia ==
    <<"E", "v", "a", "l", "u", "a", "c", "i", "xE2", "x88", "x9A", "xE2", "x89", "xA5", "n", " ", "P",
      "r", "e", "v", "i", "a">>

(* Lines 331, 251: the status filter of the primary pass. *)
IsActionable(status) == EqualFold(status, Publicada) \/ EqualFold(status, EvaluacionPrevia)

(* extractDocumentLinksFromRow: a placeholder that finds nothing. *)
extractDocumentLinksFromRow(row) == [pliegoLink |-> << >>, anuncioLink |-> << >>]

(* The contract a row gives (lines 303-328, 546-561); i is the 0-based     *)
(* index of the row.                                                       *)
ContractOfRow(row, link, docs) ==
    LET split == parseContractIDAndDescription(row[1])
    IN  [ID              |-> split.id,
         Description     |-> split.description,
         ContractType    |-> TrimSpace(row[2]),
         Status          |-> TrimSpace(row[3]),
         Amount          |-> TrimSpace(row[4]),
         SubmissionDate  |-> TrimSpace(row[5]),
         ContractingBody |-> TrimSpace(row[6]),
         Link            |-> link,
         PliegoLink      |-> docs.pliegoLink,
         AnuncioLink     |-> docs.anuncioLink]

Skipped(tableData, i) ==
    \/ i = 0 /\ IsHeader(tableData[i + 1])
    \/ Len(tableData[i + 1]) < 6

(* The loop of ExtractContractsFromTableWithLinks from row i on: the       *)
(* contracts appended, each with the index of the row it comes from.       *)
RECURSIVE WithLinksLoop(_, _, _)
WithLinksLoop(tableData, links, i) ==
    IF i >= Len(tableData) THEN << >>
    ELSE LET row  == tableData[i + 1]
             link == IF i < Len(links) THEN links[i + 1] ELSE << >>
             c    == ContractOfRow(row, link, extractDocumentLinksFromRow(row))
         IN  (IF ~Skipped(tableData, i) /\ IsActionable(c.Status)
              THEN <<[row |-> i, contract |-> c]>> ELSE << >>)
             \o WithLinksLoop(tableData, links, i + 1)

(* The loop of ExtractAllContractsFromTable. *)
RECURSIVE AllLoop(_, _)
AllLoop(tableData, i) ==
    IF i >= Len(tableData) THEN << >>
    ELSE LET row == tableData[i + 1]
             c   == ContractOfRow(row, << >>, [pliegoLink |-> << >>, anuncioLink |-> << >>])
         IN  (IF ~Skipped(tableData, i) THEN <<[row |-> i, contract |-> c]>> ELSE << >>)
             \o AllLoop(tableData, i + 1)

ContractsOf(found) == [k \in 1..Len(found) |-> found[k].contract]

RowsOf(found) == [k \in 1..Len(found) |-> found[k].row]

ExtractContractsFromTableWithLinks(table, ls) == WithLinksLoop(table, ls, 0)

ExtractAllContractsFromTable(table) == AllLoop(table, 0)

(* ExtractContractsFromHTML, lines 596-653: the 0-based positions, in the  *)
(* rendered table, of the rows that have at least 6 td cells.              *)
RECURSIVE Sufficient(_, _)
Sufficient(rows, i) ==
    IF i >= Len(rows) THEN << >>
    ELSE (IF Len(rows[i + 1]) >= 6 THEN <<i>> ELSE << >>) \o Sufficient(rows, i + 1)

(* rowData: the trimmed text of the td cells of a row. *)
RowData(row) == [j \in 1..Len(row) |-> TrimSpace(row[j])]

(* tableData and links as the loop over the rendered rows builds them. *)
TableDataOf(rows) ==
    LET at == Sufficient(rows, 0)
    IN  [k \in 1..Len(at) |-> RowData(rows[at[k] + 1])]

LinksOf(rows, ls) ==
    LET at == Sufficient(rows, 0)
    IN  [k \in 1..Len(at) |-> ls[at[k] + 1]]

(* The positions of tableData that the table passes discard as a header.   *)
DiscardedAsHeader(tableData) ==
    {i \in 0..(Len(tableData) - 1) : i = 0 /\ IsHeader(tableData[i + 1])}

(* What a pass finds, told by the positions of the rendered table: the     *)
(* contracts with the rendered row each comes from, and the rendered rows  *)
(* discarded as a header.                                                  *)
OfRendered(rows, found) ==
    LET at == Sufficient(rows, 0)
    IN  [found  |-> [k \in 1..Len(found) |->
                        [row |-> at[found[k].row + 1], contract |-> found[k].contract]],
         header |-> {at[i + 1] : i \in DiscardedAsHeader(TableDataOf(rows))}]

ExtractContractsFromHTML(rows, ls) ==
    OfRendered(rows, ExtractContractsFromTableWithLinks(TableDataOf(rows), LinksOf(rows, ls)))

ExtractAllContractsFromHTML(rows) ==
    OfRendered(rows, ExtractAllContractsFromTable(TableDataOf(rows)))

-----------------------------------------------------------------------------
(* The two extraction passes of a run on one rendered results table.       *)

MaxRows == 2

Row(first, status, n) ==
    SubSeq(<<first, <<"S", "u", "m", "i", "n", "i", "s", "t", "r", "o", "s">>, status, <<"1", ",", "0", "0">>, <<"0", "1", "/", "0", "2">>, <<"J", "u", "n", "t", "a">>>>, 1, n)

FirstCellA ==
    <<"1", "0", "8", "9", "2", "/", "2", "0", "2", "4", "S", "u", "m", "i",
      "n", "i", "s", "t", "r", "o", " ", "L", "E", "D">>

FirstCellB ==
    <<"S", "-", "0", "2", "9", "6", "8", "-", "2", "0", "2", "5", "C", "o",
      "n", "t", "r", "a", "t", "a", "c", "i", "xC3", "xB3", "n">>

StatusCells ==
    {<<"P", "u", "b", "l", "i", "c", "a", "d", "a">>,
     <<"P", "U", "B", "L", "I", "C", "A", "D", "A", " ">>,
     <<"E", "v", "a", "l", "u", "a", "c", "i", "xC3", "xB3", "n", " ", "P", "r", "e", "v", "i", "a">>,
     <<"E", "V", "A", "L", "U", "A", "C", "I", "xC3", "x93", "N", " ", "P", "R", "E", "V", "I", "A">>,
     <<"E", "v", "a", "l", "u", "a", "c", "i", "xE2", "x88", "x9A", "xE2", "x89", "xA5", "n", " ", "P", "r", "e", "v", "i", "a">>,
     <<"A", "d", "j", "u", "d", "i", "c", "a", "d", "a">>,
     << >>}

HeaderRow ==
    <<<<"E", "x", "p", "e", "d", "i", "e", "n", "t", "e">>,
      <<"T", "i", "p", "o">>, <<"E", "s", "t", "a", "d", "o">>,
      <<"I", "m", "p", "o", "r", "t", "e">>,
      <<"P", "r", "e", "s", "e", "n", "t", "a", "c", "i", "xC3", "xB3", "n">>,
      <<"xC3", "x93", "r", "g", "a", "n", "o">>>>

(* A header row made of th cells: it has no td cell. *)
ThRow == << >>

(* A contract whose contracting body is "S. de Estado". *)
EstadoRow ==
    [Row(FirstCellB, Publicada, 6) EXCEPT
        ![6] = <<"S", ".", " ", "d", "e", " ", "E", "s", "t", "a", "d", "o">>]

Rows ==
    {Row(FirstCellA, st, 6) : st \in StatusCells}
    \cup {Row(FirstCellB, Publicada, 6), Row(FirstCellB, Publicada, 5),
          Row(FirstCellA, <<"A", "d", "j", "u", "d", "i", "c", "a", "d", "a">>, 5), HeaderRow}
    \cup {ThRow, EstadoRow}

Tables == SeqsUpTo(Rows, MaxRows)

NoLink == << >>

DetailLink == <<"/", "d">>

LinkLists == SeqsUpTo({NoLink, DetailLink}, MaxRows)

NothingExtracted ==
    [filtered |-> << >>, filteredRows |-> << >>, filteredHeader |-> {},
     unfiltered |-> << >>, unfilteredRows |-> << >>, unfilteredHeader |-> {}]

(* ScraperInterface.ExtractContracts: the primary, filtered pass. *)
ExtractContracts ==
    /\ pass = "results"
    /\ LET r == ExtractContractsFromHTML(renderedRows, renderedLinks)
       IN  extracted' = [extracted EXCEPT !.filtered = ContractsOf(r.found),
                                          !.filteredRows = RowsOf(r.found),
                                          !.filteredHeader = r.header]
    /\ pass' = "filtered"
    /\ UNCHANGED <<renderedRows, renderedLinks, stored, run>>

(* ScraperInterface.ExtractAllContracts: the unfiltered pass. *)
ExtractAllContracts ==
    /\ pass = "filtered"
    /\ LET r == ExtractAllContractsFromHTML(renderedRows)
       IN  extracted' = [extracted EXCEPT !.unfiltered = ContractsOf(r.found),
                                          !.unfilteredRows = RowsOf(r.found),
                                          !.unfilteredHeader = r.header]
    /\ pass' = "all"
    /\ UNCHANGED <<renderedRows, renderedLinks, stored, run>>

-----------------------------------------------------------------------------
(* The split of one first-cell text.                                       *)

IdParts ==
    {<<"1", "0", "8", "9", "2", "/", "2", "0", "2", "4">>,
     <<"S", "-", "0", "2", "9", "6", "8", "-", "2", "0", "2", "5">>,
     <<"2", "0", "2", "4", "/", "2", "5">>,
     <<"2", "0", "2", "4", "/", "2", "5", "0", "0">>,
     <<"1", "3", "/", "2", "5", ".", "-">>,
     <<"1", "2", "-", "A", "B", " ">>,
     <<"A", "B", " ">>,
     <<" ", "7", "/", "1", " ">>,
     << >>}

RestParts ==
    {<<"S", "u", "m", "i", "n", "i", "s", "t", "r", "o", " ", "L", "E", "D">>,
     <<"L", "o", "t", "e", " ", "S", "u", "m", "i", "n", "i", "s", "t", "r", "o">>,
     <<"C", "o", "m", "p", "r", "a", " ", "y", " ", "S", "u", "m", "i", "n", "i", "s", "t", "r", "o">>,
     <<"C", "o", "n", "t", "r", "a", "t", "a", "c", "i", "xC3", "xB3", "n", " ", "d", "e", " ", "X">>,
     <<"o", "b", "r", "a", "s">>,
     <<"O", "b", "r", "a", "s">>,
     <<"x", "x", "x", "x", "x", "x", "x", "x", "x", "x", "x", "x", "x", "x", "x", "x", "x", "x", "x", "x", "x", "x", "x", "x", "x", "x", "x", "x", "x", "x", "x", "x", "x", "x", "x">>,
     << >>}

Scenario1 ==
    <<"1", "0", "8", "9", "2", "/", "2", "0", "2", "4", "S", "u", "m", "i",
      "n", "i", "s", "t", "r", "o", " ", "d", "e", " ", "m", "a", "t", "e",
      "r", "i", "a", "l", " ", "p", "a", "r", "a", " ", "p", "a", "n", "t",
      "a", "l", "l", "a", "s">>

Scenario2 ==
    <<"S", "-", "0", "2", "9", "6", "8", "-", "2", "0", "2", "5", "C", "o",
      "n", "t", "r", "a", "t", "a", "c", "i", "xC3", "xB3", "n", " ", "d",
      "e", " ", "s", "e", "r", "v", "i", "c", "i", "o", " ", "d", "e", " ",
      "i", "n", "s", "t", "a", "l", "a", "c", "i", "xC3", "xB3", "n">>

CellTexts == {i \o r : i \in IdParts, r \in RestParts} \cup {Scenario1, Scenario2}

NotSplitting ==
    [text |-> << >>, done |-> FALSE, by |-> "none", id |-> << >>, description |-> << >>]

(* One call of parseContractIDAndDescription on the text of a first cell. *)
ParseCell ==
    /\ ~splitting.done
    /\ LET r == parseContractIDAndDescription(splitting.text)
       IN  splitting' = [splitting EXCEPT !.done = TRUE,
                                          !.by = DecidingStep(splitting.text),
                                          !.id = r.id,
                                          !.description = r.description]
    /\ UNCHANGED <<stored, page, enhancing, detail, nav, roundTrip, proc>>

-----------------------------------------------------------------------------
(* CoreScraper.EnhanceContractsWithDocumentLinks                           *)

MaxEnhance == 2

StoredPliego == <<"/", "P", "0">>

StoredAnuncio == <<"/", "A", "0">>

FoundPliego == <<"/", "P", "1">>

FoundAnuncio == <<"/", "A", "1">>

(* The contracts of the filtered pass, by the fields the enhancement reads *)
(* or writes and one it only copies: they carry no document link yet.      *)
Extracted ==
    [ID : IDs, Status : {"Publicada"}, Link : {NoLink, DetailLink},
     PliegoLink : {NoLink}, AnuncioLink : {NoLink}]

(* The link columns of the stored rows: for each stored identifier its     *)
(* pliego_link and anuncio_link.                                           *)
StoredLinks ==
    UNION {[ids -> [PliegoLink : {NoLink, StoredPliego},
                    AnuncioLink : {NoLink, StoredAnuncio}]] : ids \in SUBSET IDs}

(* What ExtractDocumentLinksFromContract returns for a detail page. *)
Visits ==
    {[err |-> TRUE, pliegoLink |-> NoLink, anuncioLink |-> NoLink]}
    \cup [err : {FALSE}, pliegoLink : {NoLink, FoundPliego},
          anuncioLink : {NoLink, FoundAnuncio}]

(* storageInterface.GetContractByID(contract.ID): an error, nil, or the    *)
(* stored row.                                                             *)
Lookup(storage, id, fails) ==
    IF fails THEN [err |-> TRUE, existingContract |-> << >>]
    ELSE IF id \notin DOMAIN storage THEN [err |-> FALSE, existingContract |-> << >>]
    ELSE [err |-> FALSE, existingContract |-> <<storage[id]>>]

(* One iteration of the loop, lines 440-508: the enhanced contract and     *)
(* whether the detail page was visited.                                    *)
EnhanceOne(contract, lookup, visit) ==
    IF contract.Link = NoLink
    THEN [contract |-> contract, visited |-> FALSE, failed |-> FALSE]
    ELSE LET known == IF lookup.err THEN << >> ELSE lookup.existingContract
             both  == /\ known # << >>
                      /\ known[1].PliegoLink # NoLink
                      /\ known[1].AnuncioLink # NoLink
             some  == /\ known # << >>
                      /\ (known[1].PliegoLink # NoLink \/ known[1].AnuncioLink # NoLink)
             base  == IF some
                      THEN [contract EXCEPT !.PliegoLink = known[1].PliegoLink,
                                            !.AnuncioLink = known[1].AnuncioLink]
                      ELSE contract
         IN  IF both THEN [contract |-> base, visited |-> FALSE, failed |-> FALSE]
             ELSE IF visit.err THEN [contract |-> base, visited |-> TRUE, failed |-> TRUE]
             ELSE [contract |->
                      [base EXCEPT
                          !.PliegoLink = IF visit.pliegoLink # NoLink
                                         THEN visit.pliegoLink ELSE @,
                          !.AnuncioLink = IF visit.anuncioLink # NoLink
                                          THEN visit.anuncioLink ELSE @],
                   visited |-> TRUE, failed |-> FALSE]

(* The loop over the batch from position i on. *)
RECURSIVE EnhanceLoopStoppingAtFailure(_, _, _, _, _)
EnhanceLoopStoppingAtFailure(batch, storage, lookupFails, visits, i) ==
    IF i > Len(batch) THEN << >>
    ELSE LET one == EnhanceOne(batch[i], Lookup(storage, batch[i].ID, lookupFails[i]),
                               visits[i])
         IN  IF one.failed \/ lookupFails[i] THEN <<one>>
             ELSE <<one>> \o EnhanceLoopStoppingAtFailure(batch, storage, lookupFails,
                                                          visits, i + 1)

RECURSIVE EnhanceLoop(_, _, _, _, _)
EnhanceLoop(batch, storage, lookupFails, visits, i) ==
    IF i > Len(batch) THEN << >>
    ELSE <<EnhanceOne(batch[i], Lookup(storage, batch[i].ID, lookupFails[i]), visits[i])>>
         \o EnhanceLoop(batch, storage, lookupFails, visits, i + 1)

NotEnhancing ==
    [contracts |-> << >>, storage |-> << >>, done |-> FALSE, err |-> FALSE,
     enhancedContracts |-> << >>, lookupFails |-> << >>, visits |-> << >>,
     visited |-> << >>]

EnhanceContractsWithDocumentLinks(lookupFails, visits) ==
    /\ ~enhancing.done
    /\ LET batch == enhancing.contracts
           each  == EnhanceLoop(batch, enhancing.storage, lookupFails, visits, 1)
       IN  enhancing' =
               [enhancing EXCEPT
                   !.done = TRUE,
                   !.err = FALSE,
                   !.enhancedContracts = [i \in 1..Len(each) |-> each[i].contract],
                   !.visited = [i \in 1..Len(each) |-> each[i].visited],
                   !.lookupFails = lookupFails,
                   !.visits = visits]
    /\ UNCHANGED <<stored, page, splitting, detail, nav, roundTrip, proc>>

-----------------------------------------------------------------------------
(* CoreScraper.ExtractDocumentLinks                                        *)

MaxAnchors == 2

(* The texts of the document-type cell. *)
DocumentTypes ==
    {<<"P", "l", "i", "e", "g", "o">>,
     <<"A", "n", "u", "n", "c", "i", "o", " ", "d", "e", " ", "L", "i", "c", "i", "t", "a", "c", "i", "xC3", "xB3", "n">>,
     <<"R", "e", "c", "t", "i", "f", "i", "c", "a", "c", "i", "xC3", "xB3", "n">>,
     <<"O", "t", "r", "o", "s", " ", "d", "o", "c", "u", "m", "e", "n", "t", "o", "s">>}

(* The a elements of a detail page in document order: whether the element  *)
(* has the class celdaTam2, its href if it has one, whether the href       *)
(* contains GetDocumentByIdServlet, and the text of the td.tipoDocumento   *)
(* cell of its row if there is one.                                        *)
Anchors ==
    [celdaTam2 : {TRUE}, href : {<<<<"/", "1">>>>, <<<<"/", "2">>>>}, servlet : {TRUE},
     tipoDocumento : {<<t>> : t \in DocumentTypes}]
    \cup [celdaTam2 : {FALSE}, href : {<<<<"/", "1">>>>}, servlet : {TRUE},
          tipoDocumento : {<<<<"P", "l", "i", "e", "g", "o">>>>}]
    \cup [celdaTam2 : {TRUE}, href : {<< >>}, servlet : {FALSE},
          tipoDocumento : {<<<<"P", "l", "i", "e", "g", "o">>>>}]
    \cup [celdaTam2 : {TRUE}, href : {<<<<"/", "1">>>>}, servlet : {FALSE},
          tipoDocumento : {<<<<"A", "n", "u", "n", "c", "i", "o", " ", "d", "e", " ", "L", "i", "c", "i", "t", "a", "c", "i", "xC3", "xB3", "n">>>>}]
    \cup [celdaTam2 : {TRUE}, href : {<<<<"/", "2">>>>}, servlet : {TRUE},
          tipoDocumento : {<< >>}]

pliego == <<"p", "l", "i", "e", "g", "o">>

anuncio == <<"a", "n", "u", "n", "c", "i", "o">>

licitacion == <<"l", "i", "c", "i", "t", "a", "c", "i", "xE2", "x88", "x9A", "xE2", "x89", "xA5", "n">>

rectificacion ==
    <<"r", "e", "c", "t", "i", "f", "i", "c", "a", "c", "i", "xE2", "x88", "x9A", "xE2", "x89", "xA5", "n">>

IsPliegoType(documentType) == Contains(ToLower(TrimSpace(documentType)), pliego)

IsAnuncioType(documentType) ==
    LET lowerDocumentType == ToLower(TrimSpace(documentType))
    IN  \/ Contains(lowerDocumentType, anuncio)
        \/ Contains(lowerDocumentType, licitacion)
        \/ Contains(lowerDocumentType, rectificacion)

(* Lines 380-388: the element is a document link with a document type. *)
IsDocumentLink(a) ==
    a.celdaTam2 /\ a.href # << >> /\ a.servlet /\ a.tipoDocumento # << >>

(* Lines 379-414: the Each callback on the elements i.. of the page, from  *)
(* the links found so far.                                                 *)
RECURSIVE DocumentLinksLoop(_, _, _)
DocumentLinksLoop(anchors, i, links) ==
    IF i > Len(anchors) THEN links
    ELSE LET a == anchors[i]
             p == IF IsDocumentLink(a) /\ IsPliegoType(a.tipoDocumento[1])
                  THEN a.href[1] ELSE links.pliegoLink
             n == IF IsDocumentLink(a) /\ IsAnuncioType(a.tipoDocumento[1])
                  THEN a.href[1] ELSE links.anuncioLink
         IN  DocumentLinksLoop(anchors, i + 1, [pliegoLink |-> p, anuncioLink |-> n])

NoDetail ==
    [anchors |-> << >>, done |-> FALSE, pliegoLink |-> NoLink, anuncioLink |-> NoLink]

ExtractDocumentLinks ==
    /\ ~detail.done
    /\ LET r == DocumentLinksLoop(detail.anchors, 1,
                                  [pliegoLink |-> NoLink, anuncioLink |-> NoLink])
       IN  detail' = [detail EXCEPT !.done = TRUE,
                                    !.pliegoLink = r.pliegoLink,
                                    !.anuncioLink = r.anuncioLink]
    /\ UNCHANGED <<stored, page, splitting, enhancing, nav, roundTrip, proc>>

-----------------------------------------------------------------------------
(* CoreScraper.ScrapeLEDContracts on the CLI scraper: the six steps of a   *)
(* run against a browser whose commands may fail.                          *)

(* The selectors EnterCPVCode tries, and those of the two buttons. *)
CPVSelectors == 12

ButtonSelectors == 4

(* The length of the page-source preview EnterCPVCode logs. *)
PreviewLen == 500

(* WaitForResults, in seconds: the maximum wait and the two sleeps. *)
maxWait == 45

LoadingSleep == 3

TableSleep == 2

(* The selectors of 1..n by which the browser finds the element. *)
LocatedSets(n) == {{}} \cup {i..n : i \in 1..n} \cup {{i} : i \in 1..n}

(* What the browser does during one step: the selectors that find the      *)
(* control, the commands of the step that fail if issued, the length of    *)
(* the page source, and whether the page has the results table.            *)
NoDriver == [located |-> {}, fails |-> {}, pageLen |-> PreviewLen, table |-> FALSE]

Drivers(n, commands) ==
    [located : LocatedSets(n), fails : SUBSET commands,
     pageLen : {PreviewLen - 1, PreviewLen}, table : {FALSE}]

Nil == "nil"

Panic == "panic: slice bounds out of range"

(* Lines 106-130. *)
NavigateToSearchFormErr(d) ==
    IF "Get" \in d.fails THEN "failed to navigate to search form page" ELSE Nil

(* Lines 133-199. *)
EnterCPVCodeErr(d) ==
    LET pageSource == IF "PageSource" \in d.fails THEN 0 ELSE d.pageLen
    IN  IF d.located = {}
        THEN IF pageSource < PreviewLen THEN Panic ELSE "could not find CPV input field"
        ELSE IF "Clear" \in d.fails THEN "failed to clear CPV field"
        ELSE IF "SendKeys" \in d.fails THEN "failed to enter CPV code"
        ELSE Nil

(* Lines 202-244. *)
ClickAnadirButtonErrOnScreenshot(d) ==
    IF d.located = {} THEN "could not find Anadir button"
    ELSE IF "Click" \in d.fails THEN "failed to click Anadir button"
    ELSE IF "Screenshot" \in d.fails THEN "failed to take screenshot"
    ELSE Nil

ClickAnadirButtonErr(d) ==
    IF d.located = {} THEN "could not find Anadir button"
    ELSE IF "Click" \in d.fails THEN "failed to click Anadir button"
    ELSE Nil

(* Lines 247-283. *)
ClickBuscarButtonErr(d) ==
    IF d.located = {} THEN "could not find Buscar button"
    ELSE IF "Click" \in d.fails THEN "failed to click Buscar button"
    ELSE Nil

NoErr == [step |-> "", cause |-> Nil]

NotStarted ==
    [pc |-> "NavigateToSearchForm", invoked |-> << >>, driver |-> NoDriver,
     waiting |-> "no", elapsed |-> 0, observed |-> {}, polled |-> << >>,
     err |-> NoErr, contracts |-> << >>]

(* ScrapeLEDContracts after the step returned: the error ends the run with *)
(* no contracts, otherwise the next step is due.                           *)
ProceedPastError(n, step, d, outcome, next) ==
    [n EXCEPT !.pc = IF outcome = Panic THEN "panicked" ELSE next,
              !.invoked = Append(n.invoked, step),
              !.driver = d,
              !.err = IF outcome \in {Nil, Panic} THEN NoErr
                      ELSE [step |-> step, cause |-> outcome]]

Proceed(n, step, d, outcome, next) ==
    [n EXCEPT !.pc = IF outcome = Panic THEN "panicked"
                     ELSE IF outcome # Nil THEN "returned" ELSE next,
              !.invoked = Append(n.invoked, step),
              !.driver = d,
              !.err = IF outcome \in {Nil, Panic} THEN NoErr
                      ELSE [step |-> step, cause |-> outcome]]

NavigateToSearchForm ==
    /\ nav.pc = "NavigateToSearchForm"
    /\ \E d \in Drivers(1, {"Get", "Screenshot", "Debug"}) :
          /\ d.located = {}
          /\ d.pageLen = PreviewLen
          /\ nav' = Proceed(nav, "NavigateToSearchForm", d, NavigateToSearchFormErr(d),
                            "EnterCPVCode")
    /\ UNCHANGED <<stored, page, splitting, enhancing, detail, roundTrip, proc>>

EnterCPVCode ==
    /\ nav.pc = "EnterCPVCode"
    /\ \E d \in Drivers(CPVSelectors, {"PageSource", "Clear", "SendKeys", "Screenshot"}) :
          nav' = Proceed(nav, "EnterCPVCode", d, EnterCPVCodeErr(d), "ClickAnadirButton")
    /\ UNCHANGED <<stored, page, splitting, enhancing, detail, roundTrip, proc>>

ClickAnadirButton ==
    /\ nav.pc = "ClickAnadirButton"
    /\ \E d \in Drivers(ButtonSelectors, {"Click", "Screenshot"}) :
          /\ d.pageLen = PreviewLen
          /\ nav' = Proceed(nav, "ClickAnadirButton", d, ClickAnadirButtonErr(d),
                            "ClickBuscarButton")
    /\ UNCHANGED <<stored, page, splitting, enhancing, detail, roundTrip, proc>>

ClickBuscarButton ==
    /\ nav.pc = "ClickBuscarButton"
    /\ \E d \in Drivers(ButtonSelectors, {"Click", "Screenshot"}) :
          /\ d.pageLen = PreviewLen
          /\ nav' = Proceed(nav, "ClickBuscarButton", d, ClickBuscarButtonErr(d),
                            "WaitForResults")
    /\ UNCHANGED <<stored, page, splitting, enhancing, detail, roundTrip, proc>>

(* Lines 286-291: WaitForResults is entered and reads the clock. *)
WaitForResultsStart ==
    /\ nav.pc = "WaitForResults"
    /\ nav.waiting = "no"
    /\ nav' = [nav EXCEPT !.invoked = Append(nav.invoked, "WaitForResults"),
                          !.driver = NoDriver,
                          !.waiting = "polling",
                          !.elapsed = 0]
    /\ UNCHANGED <<stored, page, splitting, enhancing, detail, roundTrip, proc>>

(* Line 293: the condition of the loop. *)
StillWaitingWhateverTheClock(elapsed) == TRUE

StillWaiting(elapsed) == elapsed < maxWait

(* What the page shows at a poll: whether the text of its body can be     *)
(* read and contains one of the two loading phrases, and whether it has    *)
(* the element myTablaBusquedaCustom.                                      *)
Shown == [loading : BOOLEAN, table : BOOLEAN]

(* Lines 295-312: what one turn of the loop does on what the page shows.   *)
Turn(shows) ==
    IF shows.loading THEN "sleep and continue"
    ELSE IF shows.table THEN "break"
    ELSE "sleep"

(* Lines 293-316: one turn of the loop. *)
WaitForResultsPoll ==
    /\ nav.pc = "WaitForResults"
    /\ nav.waiting = "polling"
    /\ StillWaiting(nav.elapsed)
    /\ \E shows \in Shown :
          nav' = [nav EXCEPT !.observed = nav.observed \cup {shows},
                             !.polled = <<shows>>,
                             !.waiting = IF Turn(shows) = "break" THEN "found" ELSE "polling",
                             !.elapsed = CASE Turn(shows) = "sleep and continue" ->
                                                nav.elapsed + LoadingSleep
                                           [] Turn(shows) = "break" -> nav.elapsed
                                           [] OTHER -> nav.elapsed + TableSleep]
    /\ UNCHANGED <<stored, page, splitting, enhancing, detail, roundTrip, proc>>

(* Lines 318-323 and scraper.go 192-195: the loop is left, the screenshot  *)
(* is taken and nil is returned.                                           *)
WaitForResultsReturn ==
    /\ nav.pc = "WaitForResults"
    /\ \/ nav.waiting = "found"
       \/ nav.waiting = "polling" /\ ~StillWaiting(nav.elapsed)
    /\ \E screenshotFails \in BOOLEAN :
          nav' = [nav EXCEPT !.pc = "ExtractContracts",
                             !.waiting = "returned",
                             !.driver = [NoDriver EXCEPT !.fails =
                                            IF screenshotFails THEN {"Screenshot"} ELSE {}]]
    /\ UNCHANGED <<stored, page, splitting, enhancing, detail, roundTrip, proc>>

(* CLIScraper.ExtractContracts and the head of ExtractContractsFromHTML. *)
ExtractContractsErr(d) ==
    IF "PageSource" \in d.fails THEN "failed to get page source"
    ELSE IF ~d.table THEN "could not find results table"
    ELSE Nil

(* The results tables of the pages of a run: one row at most. *)
PageTables == {t \in Tables : Len(t) <= 1}

(* Step 6 of ScrapeLEDContracts on the page the browser holds. *)
ExtractContractsOfPage ==
    /\ nav.pc = "ExtractContracts"
    /\ \E fails \in SUBSET {"PageSource"}, table \in BOOLEAN, rows \in PageTables :
          /\ (\E shows \in nav.observed : shows.table) => table
          /\ ~table => rows = << >>
          /\ LET d == [NoDriver EXCEPT !.fails = fails, !.table = table]
                 outcome == ExtractContractsErr(d)
                 links == [k \in 1..Len(rows) |-> NoLink]
                 n == Proceed(nav, "ExtractContracts", d, outcome, "returned")
             IN  nav' = [n EXCEPT !.contracts =
                            IF outcome = Nil
                            THEN ContractsOf(ExtractContractsFromHTML(rows, links).found)
                            ELSE << >>]
    /\ UNCHANGED <<stored, page, splitting, enhancing, detail, roundTrip, proc>>

-----------------------------------------------------------------------------
(* Storage.SaveContracts and Storage.GetContractByID on whole records: the *)
(* columns of the contracts table and the fields bound to and scanned from *)
(* them (scraped_at, a timestamp, is left out).                            *)

(* The column list of the INSERT OR REPLACE statement. *)
InsertColumns ==
    <<"id", "description", "contract_type", "status", "amount", "submission_date",
      "contracting_body", "link", "pliego_link", "anuncio_link">>

(* The arguments of insertStmt.Exec, in order. *)
InsertArgs(c) ==
    <<c.ID, c.Description, c.ContractType, c.Status, c.Amount, c.SubmissionDate,
      c.ContractingBody, c.Link, c.PliegoLink, c.AnuncioLink>>

(* The column list of the SELECT of GetContractByID. *)
SelectColumns ==
    <<"id", "description", "contract_type", "status", "amount", "submission_date",
      "contracting_body", "link", "pliego_link", "anuncio_link">>

(* The fields Scan fills, in order. *)
ScanTargetsLinksSwapped ==
    <<"ID", "Description", "ContractType", "Status", "Amount", "SubmissionDate",
      "ContractingBody", "Link", "AnuncioLink", "PliegoLink">>

ScanTargets ==
    <<"ID", "Description", "ContractType", "Status", "Amount", "SubmissionDate",
      "ContractingBody", "Link", "PliegoLink", "AnuncioLink">>

PositionIn(seq, x) == CHOOSE k \in 1..Len(seq) : seq[k] = x

(* The row the INSERT writes for a contract. *)
RowOfInsert(c) ==
    [col \in {InsertColumns[k] : k \in 1..Len(InsertColumns)} |->
        InsertArgs(c)[PositionIn(InsertColumns, col)]]

(* The contract Scan builds from a row. *)
ScanContract(row) ==
    [f \in {ScanTargets[k] : k \in 1..Len(ScanTargets)} |->
        row[SelectColumns[PositionIn(ScanTargets, f)]]]

(* Contracts with every field set: two whose values all differ, and one of *)
(* empty strings, under each identifier.                                   *)
FullContract(id, v) ==
    [ID |-> id,
     Description     |-> IF v = 0 THEN "" ELSE IF v = 1 THEN "d1" ELSE "d2",
     ContractType    |-> IF v = 0 THEN "" ELSE IF v = 1 THEN "t1" ELSE "t2",
     Status          |-> IF v = 0 THEN "" ELSE IF v = 1 THEN "Publicada" ELSE "Adjudicada",
     Amount          |-> IF v = 0 THEN "" ELSE IF v = 1 THEN "a1" ELSE "a2",
     SubmissionDate  |-> IF v = 0 THEN "" ELSE IF v = 1 THEN "s1" ELSE "s2",
     ContractingBody |-> IF v = 0 THEN "" ELSE IF v = 1 THEN "b1" ELSE "b2",
     Link            |-> IF v = 0 THEN "" ELSE IF v = 1 THEN "l1" ELSE "l2",
     PliegoLink      |-> IF v = 0 THEN "" ELSE IF v = 1 THEN "p1" ELSE "p2",
     AnuncioLink     |-> IF v = 0 THEN "" ELSE IF v = 1 THEN "n1" ELSE "n2"]

FullContracts == {FullContract(id, v) : id \in IDs, v \in 0..2}

FullBatches == SeqsUpTo(FullContracts, MaxBatch)

(* The rows of the table after the inserts of the batch from position i. *)
RECURSIVE InsertLoop(_, _, _)
InsertLoop(table, batch, i) ==
    IF i > Len(batch) THEN table
    ELSE InsertLoop([id \in DOMAIN table \cup {batch[i].ID} |->
                        IF id = batch[i].ID THEN RowOfInsert(batch[i]) ELSE table[id]],
                    batch, i + 1)

NoRoundTrip ==
    [table |-> << >>, op |-> "none", err |-> FALSE, saved |-> << >>, id |-> "",
     got |-> << >>]

(* Storage.SaveContracts: the rows of the contracts table. A statement     *)
(* that fails rolls the transaction back.                                  *)
SaveContractsRows(batch, fail) ==
    /\ fail => Len(batch) > 0
    /\ roundTrip' = [roundTrip EXCEPT
                        !.table = IF fail THEN @ ELSE InsertLoop(@, batch, 1),
                        !.op = "SaveContracts",
                        !.err = fail,
                        !.saved = IF fail THEN << >> ELSE batch,
                        !.id = "",
                        !.got = << >>]
    /\ UNCHANGED <<stored, page, splitting, enhancing, detail, nav, proc>>

(* Storage.GetContractByID: sql.ErrNoRows gives nil, nil. *)
GetContractByIDRow(id, fail) ==
    /\ roundTrip' = [roundTrip EXCEPT
                        !.op = "GetContractByID",
                        !.err = fail,
                        !.id = id,
                        !.got = IF fail \/ id \notin DOMAIN roundTrip.table THEN << >>
                                ELSE <<ScanContract(roundTrip.table[id])>>]
    /\ UNCHANGED <<stored, page, splitting, enhancing, detail, nav, proc>>

-----------------------------------------------------------------------------
(* main: one scraping run of the process, in the headless mode (the case   *)
(* scrape-cli) or the visible-browser mode (the case scrape-selenium).     *)

MaxPage == 2

(* The rows of the results page as the two extraction passes read them:    *)
(* the identifier and the status of the row, and the link of its first     *)
(* cell.                                                                   *)
PageRows == [ID : IDs, Status : {"Publicada", "Adjudicada"}, Link : {NoLink, DetailLink}]

Pages == SeqsUpTo(PageRows, MaxPage)

OnAllowList(r) == r.Status = "Publicada"

(* ExtractContracts: the rows of an allow-listed status, with their link. *)
FilteredOf(p) ==
    LET kept == SelectSeq(p, OnAllowList)
    IN  [k \in 1..Len(kept) |->
            [ID |-> kept[k].ID, Status |-> kept[k].Status, Link |-> kept[k].Link,
             PliegoLink |-> NoLink, AnuncioLink |-> NoLink]]

(* ExtractAllContracts: every row, without links. *)
AllOf(p) ==
    [k \in 1..Len(p) |->
        [ID |-> p[k].ID, Status |-> p[k].Status, Link |-> NoLink,
         PliegoLink |-> NoLink, AnuncioLink |-> NoLink]]

(* The database the run finds: empty, or the contract A1 as earlier runs   *)
(* left it.                                                                *)
FoundTables ==
    {<< >>}
    \cup {[id \in {"A1"} |-> r] :
            r \in [ID : {"A1"}, Status : Statuses, Link : {DetailLink},
                   PliegoLink : {NoLink, StoredPliego},
                   AnuncioLink : {NoLink, StoredAnuncio}]}

(* The detail-page visits of a run. *)
RunVisits ==
    {[err |-> TRUE, pliegoLink |-> NoLink, anuncioLink |-> NoLink],
     [err |-> FALSE, pliegoLink |-> NoLink, anuncioLink |-> NoLink],
     [err |-> FALSE, pliegoLink |-> FoundPliego, anuncioLink |-> NoLink]}

(* The statement failures of a transaction of the run. *)
RunFails == {NoFail, [kind |-> "commit", at |-> 0]}

NotRunning == [pc |-> "idle"]

Started(mode) ==
    [pc |-> "NewScraper", mode |-> mode, session |-> "none", exit |-> "", failedAt |-> "",
     events |-> << >>, page |-> << >>, contracts |-> << >>, allContracts |-> << >>,
     allFailed |-> FALSE, checked |-> "no", newContracts |-> << >>, saved |-> FALSE,
     notified |-> << >>, notifyFailed |-> FALSE,
     startTable |-> contracts, n0 |-> Len(changes)]

(* The order of the calls of the two cases of main and of                  *)
(* processContractsWithStatusCheck and processContracts.                   *)
StageAfterCheckingFirst(mode, pc) ==
    IF mode = "cli"
    THEN CASE pc = "NewScraper" -> "Scrape"
           [] pc = "Scrape" -> "ExtractAll"
           [] pc = "ExtractAll" -> "Check"
           [] pc = "Check" -> "Enhance"
           [] pc = "Enhance" -> "GetNew"
           [] pc = "GetNew" -> "Save"
           [] pc = "Save" -> "Notify"
           [] pc = "Notify" -> "Count"
           [] pc = "Count" -> "Recent"
           [] OTHER -> "Return"
    ELSE CASE pc = "NewScraper" -> "Scrape"
           [] pc = "Scrape" -> "GetNew"
           [] pc = "GetNew" -> "Save"
           [] pc = "Save" -> "Notify"
           [] pc = "Notify" -> "Count"
           [] OTHER -> "Return"

StageAfter(mode, pc) ==
    IF mode = "cli"
    THEN CASE pc = "NewScraper" -> "Scrape"
           [] pc = "Scrape" -> "ExtractAll"
           [] pc = "ExtractAll" -> "Enhance"
           [] pc = "Enhance" -> "Check"
           [] pc = "Check" -> "GetNew"
           [] pc = "GetNew" -> "Save"
           [] pc = "Save" -> "Notify"
           [] pc = "Notify" -> "Count"
           [] pc = "Count" -> "Recent"
           [] OTHER -> "Return"
    ELSE CASE pc = "NewScraper" -> "Scrape"
           [] pc = "Scrape" -> "GetNew"
           [] pc = "GetNew" -> "Save"
           [] pc = "Save" -> "Notify"
           [] pc = "Notify" -> "Count"
           [] OTHER -> "Return"

(* The call is made and returns: the next call of main is due. *)
Called(p, event) ==
    [p EXCEPT !.events = Append(p.events, event), !.pc = StageAfter(p.mode, p.pc)]

(* log.Fatalf: the process exits at once; deferred calls are not run. *)
Fatal(p, event) ==
    [p EXCEPT !.events = Append(p.events, event), !.pc = "exit", !.exit = "fatal",
              !.failedAt = event]

(* The deferred Close of the session, where one is pending. *)
Deferred(p) ==
    IF p.session = "open"
    THEN [p EXCEPT !.session = "closed", !.events = Append(p.events, "Close")]
    ELSE p

(* NewScraper; in the visible-browser mode inside ScrapeContracts. *)
MainNewScraper(fails) ==
    /\ proc.pc = "NewScraper"
    /\ proc' = IF fails THEN Fatal(proc, "NewScraper")
               ELSE [Called(proc, "NewScraper") EXCEPT !.session = "open"]
    /\ UNCHANGED <<stored, page, splitting, enhancing, detail, nav, roundTrip>>

(* What main does with the result of ScrapeLEDContracts on the page: in    *)
(* the visible-browser mode ScrapeContracts has closed the session by its  *)
(* deferred call when main sees the result.                                *)
AfterScrapeIgnoringError(p, outcome, rows) ==
    LET q == IF p.mode = "selenium" \/ outcome = "panic" THEN Deferred(p) ELSE p
        e == IF p.mode = "selenium" \/ outcome = "panic"
             THEN <<"ScrapeLEDContracts", "Close">> ELSE <<"ScrapeLEDContracts">>
    IN  IF outcome = "panic"
        THEN [q EXCEPT !.events = p.events \o e, !.pc = "exit", !.exit = "panic",
                       !.failedAt = "ScrapeLEDContracts"]
        ELSE [q EXCEPT !.events = p.events \o e,
                       !.pc = StageAfter(p.mode, p.pc),
                       !.failedAt = IF outcome = "error" THEN "ScrapeLEDContracts" ELSE "",
                       !.page = rows,
                       !.contracts = FilteredOf(rows)]

AfterScrape(p, outcome, rows) ==
    LET q == IF p.mode = "selenium" \/ outcome = "panic" THEN Deferred(p) ELSE p
        e == IF p.mode = "selenium" \/ outcome = "panic"
             THEN <<"ScrapeLEDContracts", "Close">> ELSE <<"ScrapeLEDContracts">>
    IN  IF outcome = "panic"
        THEN [q EXCEPT !.events = p.events \o e, !.pc = "exit", !.exit = "panic",
                       !.failedAt = "ScrapeLEDContracts"]
        ELSE IF outcome = "error"
        THEN [q EXCEPT !.events = p.events \o e, !.pc = "exit", !.exit = "fatal",
                       !.failedAt = "ScrapeLEDContracts", !.page = rows]
        ELSE [q EXCEPT !.events = p.events \o e,
                       !.pc = StageAfter(p.mode, p.pc),
                       !.page = rows,
                       !.contracts = FilteredOf(rows)]

(* ScrapeContractsWithScraper or ScrapeContracts: a step fails, the CPV    *)
(* step panics, or the filtered pass returns the contracts of the page.    *)
MainScrape(outcome, rows) ==
    /\ proc.pc = "Scrape"
    /\ proc' = AfterScrape(proc, outcome, rows)
    /\ UNCHANGED <<stored, page, splitting, enhancing, detail, nav, roundTrip>>

(* cliScraper.ExtractAllContracts: a failure is logged and the run goes on *)
(* with no contracts for the status check.                                 *)
MainExtractAll(fails) ==
    /\ proc.pc = "ExtractAll"
    /\ proc' = [Called(proc, "ExtractAllContracts") EXCEPT
                   !.allContracts = IF fails THEN << >> ELSE AllOf(proc.page),
                   !.allFailed = fails]
    /\ UNCHANGED <<stored, page, splitting, enhancing, detail, nav, roundTrip>>

(* The storage lookups and detail-page visits of the enhancement, in the   *)
(* order of the loop.                                                      *)
RECURSIVE EnhanceEvents(_, _, _)
EnhanceEvents(batch, each, i) ==
    IF i > Len(batch) THEN << >>
    ELSE (IF batch[i].Link = NoLink THEN << >> ELSE <<"GetContractByID">>)
         \o (IF each[i].visited THEN <<"ExtractDocumentLinksFromContract">> ELSE << >>)
         \o EnhanceEvents(batch, each, i + 1)

(* coreScraper.EnhanceContractsWithDocumentLinks(contracts, cliScraper, store) *)
MainEnhance(lookupFails, visits) ==
    /\ proc.pc = "Enhance"
    /\ LET batch == proc.contracts
           each  == EnhanceLoop(batch, contracts, lookupFails, visits, 1)
       IN  proc' = [proc EXCEPT
                       !.pc = StageAfter(proc.mode, proc.pc),
                       !.events = proc.events \o EnhanceEvents(batch, each, 1),
                       !.contracts = [i \in 1..Len(each) |-> each[i].contract]]
    /\ UNCHANGED <<stored, page, splitting, enhancing, detail, nav, roundTrip>>

(* processContractsWithStatusCheck: the status check on the unfiltered     *)
(* contracts, if there are any; its failure is logged.                     *)
MainCheck(fail) ==
    /\ proc.pc = "Check"
    /\ IF Len(proc.allContracts) > 0
       THEN LET r      == CheckLoop(TxBegin, proc.allContracts, 1, fail)
                failed == r.err \/ fail.kind = "commit"
                end    == IF failed THEN Rollback(Begin, r.tx) ELSE r.tx
            IN  /\ contracts' = end.contracts
                /\ changes' = end.changes
                /\ provenance' = end.provenance
                /\ proc' = [Called(proc, "CheckAndUpdateStatusChanges") EXCEPT
                               !.checked = IF failed THEN "failed" ELSE "committed"]
       ELSE /\ fail = NoFail
            /\ proc' = [proc EXCEPT !.pc = StageAfter(proc.mode, proc.pc)]
            /\ UNCHANGED <<contracts, changes, provenance>>
    /\ UNCHANGED <<savedIds, last, page, splitting, enhancing, detail, nav, roundTrip>>

(* processContracts: store.GetNewContracts, if there are contracts. *)
MainGetNew(fails) ==
    /\ proc.pc = "GetNew"
    /\ IF Len(proc.contracts) > 0
       THEN proc' = IF fails THEN Fatal(proc, "GetNewContracts")
                    ELSE [Called(proc, "GetNewContracts") EXCEPT
                             !.newContracts = NewContractsLoop(contracts, proc.contracts, 1)]
       ELSE /\ ~fails
            /\ proc' = [proc EXCEPT !.pc = "Count"]
    /\ UNCHANGED <<stored, page, splitting, enhancing, detail, nav, roundTrip>>

(* Line 225 of main: the notification is sent for a non-empty set. *)
NotifiesAlways(newContracts) == TRUE

Notifies(newContracts) == Len(newContracts) > 0

(* processContracts: store.SaveContracts. *)
MainSave(fail) ==
    /\ proc.pc = "Save"
    /\ LET r      == SaveLoop(TxBegin, proc.contracts, 1, fail)
           failed == r.err \/ fail.kind = "commit"
           end    == IF failed THEN Rollback(Begin, r.tx) ELSE r.tx
       IN  /\ contracts' = end.contracts
           /\ changes' = end.changes
           /\ provenance' = end.provenance
           /\ proc' = IF failed THEN Fatal(proc, "SaveContracts")
                      ELSE [Called(proc, "SaveContracts") EXCEPT
                               !.saved = TRUE,
                               !.pc = IF Notifies(proc.newContracts)
                                      THEN "Notify" ELSE "Count"]
    /\ UNCHANGED <<savedIds, last, page, splitting, enhancing, detail, nav, roundTrip>>

(* processContracts: notifier.SendNewContractsNotification; its failure is *)
(* logged.                                                                 *)
MainNotify(fails) ==
    /\ proc.pc = "Notify"
    /\ proc' = [Called(proc, "SendNewContractsNotification") EXCEPT
                   !.notified = Append(proc.notified, proc.newContracts),
                   !.notifyFailed = fails]
    /\ UNCHANGED <<stored, page, splitting, enhancing, detail, nav, roundTrip>>

(* processContracts: store.GetContractCount; its failure is logged. *)
MainCount ==
    /\ proc.pc = "Count"
    /\ proc' = Called(proc, "GetContractCount")
    /\ UNCHANGED <<stored, page, splitting, enhancing, detail, nav, roundTrip>>

(* processContractsWithStatusCheck: store.GetRecentStatusChanges. *)
MainRecent ==
    /\ proc.pc = "Recent"
    /\ proc' = Called(proc, "GetRecentStatusChanges")
    /\ UNCHANGED <<stored, page, splitting, enhancing, detail, nav, roundTrip>>

(* main returns and its deferred calls run. *)
MainReturn ==
    /\ proc.pc = "Return"
    /\ proc' = [Deferred(proc) EXCEPT !.pc = "exit", !.exit = "return"]
    /\ UNCHANGED <<stored, page, splitting, enhancing, detail, nav, roundTrip>>

-----------------------------------------------------------------------------

Init ==
    /\ contracts = << >>
    /\ changes = << >>
    /\ provenance = << >>
    /\ savedIds = {}
    /\ last = Idle
    /\ renderedRows = << >>
    /\ renderedLinks = << >>
    /\ extracted = NothingExtracted
    /\ pass = "none"
    /\ splitting = NotSplitting
    /\ enhancing = NotEnhancing
    /\ detail = NoDetail
    /\ nav = NotStarted
    /\ roundTrip = NoRoundTrip
    /\ proc = NotRunning

Next ==
    \/ \E batch \in Batches, fail \in Fails :
          SaveContracts(batch, fail) /\ Len(changes') <= MaxChanges
    \/ \E batch \in Observed, fail \in Fails :
          CheckAndUpdateStatusChanges(batch, fail) /\ Len(changes') <= MaxChanges
    \/ \E batch \in Observed, fail \in BOOLEAN : GetNewContracts(batch, fail)
    \/ \E id \in IDs, fail \in BOOLEAN : GetContractByID(id, fail)
    \/ \E fail \in BOOLEAN : GetContractCount(fail)
    \/ \E id \in IDs, fail \in BOOLEAN : DeleteContract(id, fail)
    \/ \E fail \in BOOLEAN : DeleteAllContracts(fail)
    \/ Return

Spec == Init /\ [][Next]_vars

(* The storage under runs that observe one contract at a time, followed    *)
(* over a longer history of status changes.                                *)
MaxHistory == 3

OneObserved == {<<c>> : c \in {c \in Contract : c.ID = "A1" /\ c.Description = "d1"}}

NextHistory ==
    \/ \E batch \in OneObserved, fail \in Fails :
          SaveContracts(batch, fail) /\ Len(changes') <= MaxHistory
    \/ \E batch \in OneObserved, fail \in Fails :
          CheckAndUpdateStatusChanges(batch, fail) /\ Len(changes') <= MaxHistory
    \/ \E batch \in OneObserved, fail \in BOOLEAN : GetNewContracts(batch, fail)
    \/ \E id \in IDs, fail \in BOOLEAN : GetContractByID(id, fail)
    \/ \E fail \in BOOLEAN : GetContractCount(fail)
    \/ \E id \in IDs, fail \in BOOLEAN : DeleteContract(id, fail)
    \/ \E fail \in BOOLEAN : DeleteAllContracts(fail)
    \/ Return

SpecHistory == Init /\ [][NextHistory]_vars

(* The same runs on a database from which nothing is ever deleted. *)
NextKept ==
    \/ \E batch \in OneObserved, fail \in Fails :
          SaveContracts(batch, fail) /\ Len(changes') <= MaxHistory
    \/ \E batch \in OneObserved, fail \in Fails :
          CheckAndUpdateStatusChanges(batch, fail) /\ Len(changes') <= MaxHistory
    \/ Return

SpecKept == Init /\ [][NextKept]_vars

(* A run's extraction: the rendered table is any table of the bounded set, *)
(* each row with the link of its first cell (none for some); the storage   *)
(* is as NewStorage leaves it.                                             *)
InitExtract ==
    /\ contracts = << >>
    /\ changes = << >>
    /\ provenance = << >>
    /\ savedIds = {}
    /\ last = Idle
    /\ renderedRows \in Tables
    /\ renderedLinks \in {l \in LinkLists : Len(l) = Len(renderedRows)}
    /\ extracted = NothingExtracted
    /\ pass = "results"
    /\ splitting = NotSplitting
    /\ enhancing = NotEnhancing
    /\ detail = NoDetail
    /\ nav = NotStarted
    /\ roundTrip = NoRoundTrip
    /\ proc = NotRunning

NextExtract ==
    \/ ExtractContracts
    \/ ExtractAllContracts

SpecExtract == InitExtract /\ [][NextExtract]_vars

(* The split of any text of the bounded set. *)
InitSplit ==
    /\ contracts = << >>
    /\ changes = << >>
    /\ provenance = << >>
    /\ savedIds = {}
    /\ last = Idle
    /\ renderedRows = << >>
    /\ renderedLinks = << >>
    /\ extracted = NothingExtracted
    /\ pass = "none"
    /\ splitting \in {[NotSplitting EXCEPT !.text = t] : t \in CellTexts}
    /\ enhancing = NotEnhancing
    /\ detail = NoDetail
    /\ nav = NotStarted
    /\ roundTrip = NoRoundTrip
    /\ proc = NotRunning

NextSplit == ParseCell

SpecSplit == InitSplit /\ [][NextSplit]_vars

(* The enhancement of any batch of the filtered pass against any stored    *)
(* links, under any outcome of the lookups and of the detail-page visits.  *)
InitEnhance ==
    /\ contracts = << >>
    /\ changes = << >>
    /\ provenance = << >>
    /\ savedIds = {}
    /\ last = Idle
    /\ renderedRows = << >>
    /\ renderedLinks = << >>
    /\ extracted = NothingExtracted
    /\ pass = "none"
    /\ splitting = NotSplitting
    /\ enhancing \in {[NotEnhancing EXCEPT !.contracts = b, !.storage = st] :
                          b \in SeqsUpTo(Extracted, MaxEnhance), st \in StoredLinks}
    /\ detail = NoDetail
    /\ nav = NotStarted
    /\ roundTrip = NoRoundTrip
    /\ proc = NotRunning

NextEnhance ==
    \E lookupFails \in [1..Len(enhancing.contracts) -> BOOLEAN],
       visits \in [1..Len(enhancing.contracts) -> Visits] :
        EnhanceContractsWithDocumentLinks(lookupFails, visits)

SpecEnhance == InitEnhance /\ [][NextEnhance]_vars

(* The document links of any detail page of the bounded set. *)
InitDetail ==
    /\ contracts = << >>
    /\ changes = << >>
    /\ provenance = << >>
    /\ savedIds = {}
    /\ last = Idle
    /\ renderedRows = << >>
    /\ renderedLinks = << >>
    /\ extracted = NothingExtracted
    /\ pass = "none"
    /\ splitting = NotSplitting
    /\ enhancing = NotEnhancing
    /\ detail \in {[NoDetail EXCEPT !.anchors = a] : a \in SeqsUpTo(Anchors, MaxAnchors)}
    /\ nav = NotStarted
    /\ roundTrip = NoRoundTrip
    /\ proc = NotRunning

NextDetail == ExtractDocumentLinks

SpecDetail == InitDetail /\ [][NextDetail]_vars

(* Saves and lookups of whole records on a database that starts empty. *)
InitRoundTrip == Init

NextRoundTrip ==
    \/ \E batch \in FullBatches, fail \in BOOLEAN : SaveContractsRows(batch, fail)
    \/ \E id \in IDs, fail \in BOOLEAN : GetContractByIDRow(id, fail)

SpecRoundTrip == InitRoundTrip /\ [][NextRoundTrip]_vars

(* One run of ScrapeLEDContracts. *)
InitRun == Init

(* One run of main in either mode on a database earlier runs may have      *)
(* filled.                                                                 *)
InitMain ==
    /\ contracts \in FoundTables
    /\ changes = << >>
    /\ provenance = << >>
    /\ savedIds = {}
    /\ last = Idle
    /\ renderedRows = << >>
    /\ renderedLinks = << >>
    /\ extracted = NothingExtracted
    /\ pass = "none"
    /\ splitting = NotSplitting
    /\ enhancing = NotEnhancing
    /\ detail = NoDetail
    /\ nav = NotStarted
    /\ roundTrip = NoRoundTrip
    /\ proc \in {Started(mode) : mode \in {"cli", "selenium"}}

NextMain ==
    \/ \E fails \in BOOLEAN : MainNewScraper(fails)
    \/ \E outcome \in {"error", "panic"} : MainScrape(outcome, << >>)
    \/ \E rows \in Pages : MainScrape("ok", rows)
    \/ \E fails \in BOOLEAN : MainExtractAll(fails)
    \/ \E lookupFails \in [1..Len(proc.contracts) -> BOOLEAN],
          visits \in [1..Len(proc.contracts) -> RunVisits] :
          MainEnhance(lookupFails, visits)
    \/ \E fail \in RunFails : MainCheck(fail)
    \/ \E fails \in BOOLEAN : MainGetNew(fails)
    \/ \E fail \in RunFails : MainSave(fail)
    \/ \E fails \in BOOLEAN : MainNotify(fails)
    \/ MainCount
    \/ MainRecent
    \/ MainReturn

SpecMain == InitMain /\ [][NextMain]_vars

NextRun ==
    \/ NavigateToSearchForm
    \/ EnterCPVCode
    \/ ClickAnadirButton
    \/ ClickBuscarButton
    \/ WaitForResultsStart
    \/ WaitForResultsPoll
    \/ WaitForResultsReturn
    \/ ExtractContractsOfPage

SpecRun == InitRun /\ [][NextRun]_vars

(* The run is sequential: a step that can be taken is taken. *)
SpecRunFair == SpecRun /\ WF_vars(NextRun)

-----------------------------------------------------------------------------
(* Properties of the storage layer.                                        *)

Succeeded(op) == last.op = op /\ ~last.err

(* The rows the last call appended to status_changes. *)
Appended == SubSeq(changes, last.n0 + 1, Len(changes))

RECURSIVE LogRows(_)
LogRows(log) == IF log = << >> THEN << >> ELSE Head(log).rows \o LogRows(Tail(log))

Occurrences(batch, id) == Cardinality({i \in DOMAIN batch : batch[i].ID = id})

AppendedFor(id) == {k \in (last.n0 + 1)..Len(changes) : changes[k].contract_id = id}

(* C1, as stated: for every batch and every identifier of the batch that   *)
(* has no stored row when SaveContracts starts, SaveContracts appends no   *)
(* StatusChange row for that identifier.                                   *)
C1_Original ==
    Succeeded("SaveContracts") =>
        \A i \in DOMAIN last.batch :
            last.batch[i].ID \notin last.startIds => AppendedFor(last.batch[i].ID) = {}

(* C2, as stated: for every contract of a SaveContracts batch whose        *)
(* identifier already has a stored row, whatever the stored status is: if  *)
(* the stored status differs from the incoming one, exactly one            *)
(* StatusChange row (old = stored, new = incoming) is appended for it, if  *)
(* they are equal none is; in both cases the stored row becomes the        *)
(* incoming record. Stated for the identifiers that occur once in the      *)
(* batch, where "the stored status" has one reading.                       *)
C2_Original ==
    Succeeded("SaveContracts") =>
        \A i \in DOMAIN last.batch :
            LET c == last.batch[i]
            IN  (c.ID \in last.startIds /\ Occurrences(last.batch, c.ID) = 1) =>
                    /\ contracts[c.ID] = c
                    /\ last.log[i].existed
                    /\ IF last.log[i].stored # c.Status
                       THEN /\ Cardinality(AppendedFor(c.ID)) = 1
                            /\ \A k \in AppendedFor(c.ID) :
                                  changes[k] = StatusChange(c.ID, last.log[i].stored, c.Status)
                       ELSE AppendedFor(c.ID) = {}

(* C3: CheckAndUpdateStatusChanges never creates a contract row: for every *)
(* incoming contract whose identifier has no stored row, no row of         *)
(* contracts and no row of status_changes is written for that identifier.  *)
C3_CheckNeverCreates ==
    Succeeded("CheckAndUpdateStatusChanges") =>
        \A i \in DOMAIN last.batch :
            last.batch[i].ID \notin last.startIds =>
                /\ last.batch[i].ID \notin DOMAIN contracts
                /\ AppendedFor(last.batch[i].ID) = {}
                /\ last.log[i].after = << >>

C3_Witness ==
    /\ Succeeded("CheckAndUpdateStatusChanges")
    /\ Len(last.batch) = 2
    /\ last.batch[1].ID \notin last.startIds
    /\ last.batch[1].Status = "Adjudicada"
    /\ last.batch[2].ID \in last.startIds
    /\ Len(Appended) = 1

(* C4: for every incoming contract of CheckAndUpdateStatusChanges whose    *)
(* identifier has a stored row when it is processed: if the stored status  *)
(* differs from the incoming one, the stored status becomes the incoming   *)
(* one and exactly one StatusChange row (old = stored, new = incoming) is  *)
(* appended; if they are equal nothing is written. No field of the stored  *)
(* row other than the status changes.                                      *)
C4_CheckUpdatesStatusOnly ==
    Succeeded("CheckAndUpdateStatusChanges") =>
        /\ Len(last.log) = Len(last.batch)
        /\ LogRows(last.log) = Appended
        /\ DOMAIN contracts = last.startIds
        /\ \A i \in DOMAIN last.batch :
              LET c == last.batch[i]
                  e == last.log[i]
              IN  e.existed =>
                    /\ e.before # << >> /\ e.after # << >>
                    /\ e.before[1].Status = e.stored
                    /\ e.after[1].ID = e.before[1].ID
                    /\ e.after[1].Description = e.before[1].Description
                    /\ contracts[c.ID].Description = e.before[1].Description
                    /\ IF e.stored # c.Status
                       THEN /\ e.after[1].Status = c.Status
                            /\ e.rows = <<StatusChange(c.ID, e.stored, c.Status)>>
                       ELSE /\ e.after = e.before
                            /\ e.rows = << >>
                    /\ (\A j \in DOMAIN last.batch : j > i => last.batch[j].ID # c.ID)
                          => contracts[c.ID] = e.after[1]

C4_Witness ==
    /\ Succeeded("CheckAndUpdateStatusChanges")
    /\ \E i \in DOMAIN last.batch :
          /\ last.log[i].existed
          /\ last.log[i].stored = ""
          /\ last.batch[i].Status = "Publicada"
          /\ last.log[i].before[1].Description # last.batch[i].Description

IsNew(c) == c.ID \notin DOMAIN contracts

(* C5: GetNewContracts(batch) returns exactly the contracts of the batch   *)
(* whose identifier has no stored row, in batch order, whatever their      *)
(* status, and it does not modify storage.                                 *)
C5_GetNewContracts ==
    [][(last'.op = "GetNewContracts" /\ ~last'.err) =>
          /\ last'.result = SelectSeq(last'.batch, IsNew)
          /\ contracts' = contracts
          /\ changes' = changes]_vars

C5_Witness ==
    /\ Succeeded("GetNewContracts")
    /\ Len(last.batch) = 2
    /\ last.batch[1].ID \in DOMAIN contracts
    /\ contracts[last.batch[1].ID].Status # last.batch[1].Status
    /\ last.result = <<last.batch[2]>>

(* C6, as stated: once SaveContracts has committed an identifier, no later *)
(* GetNewContracts returns it while it is not deleted; and saving A1 with  *)
(* status s1 and later saving A1 with a different status s2 leaves exactly *)
(* one StatusChange(A1, s1, s2).                                           *)
C6_Original ==
    /\ Succeeded("GetNewContracts") =>
          \A k \in DOMAIN last.result : last.result[k].ID \notin savedIds
    /\ (/\ Succeeded("SaveContracts")
        /\ Len(last.batch) = 1
        /\ last.batch[1].ID \in last.startIds
        /\ last.log[1].stored # last.batch[1].Status)
       => Appended = <<StatusChange(last.batch[1].ID, last.log[1].stored, last.batch[1].Status)>>

(* C7: SaveContracts and CheckAndUpdateStatusChanges are all-or-nothing:   *)
(* when a read, an upsert, a status update, a StatusChange insert or the   *)
(* commit fails, the call returns an error and both tables are exactly as  *)
(* they were before the call.                                              *)
C7_AllOrNothing ==
    [][(last'.op \in {"SaveContracts", "CheckAndUpdateStatusChanges"} /\ last'.err) =>
          /\ contracts' = contracts
          /\ changes' = changes]_vars

C7_Witness ==
    /\ last.op \in {"SaveContracts", "CheckAndUpdateStatusChanges"}
    /\ last.err
    /\ last.wrote

(* C8: every StatusChange row has an old status different from its new     *)
(* status and was appended by a step in which a contract row with its      *)
(* identifier existed with the row's old status.                           *)
C8_ChangeHasCause ==
    /\ Len(provenance) = Len(changes)
    /\ \A k \in DOMAIN changes :
          /\ changes[k].old_status # changes[k].new_status
          /\ provenance[k].existed
          /\ provenance[k].stored = changes[k].old_status

C8_Witness ==
    /\ last.op \in {"SaveContracts", "CheckAndUpdateStatusChanges"}
    /\ ~last.err
    /\ Len(changes) > last.n0
    /\ Occurrences(last.batch, changes[Len(changes)].contract_id) = 2

(* C9: the status_changes history is append-only under every storage       *)
(* operation: no step updates or removes an existing row, and deleting     *)
(* contracts leaves their StatusChange rows in place.                      *)
C9_AppendOnly ==
    [][/\ Len(changes') >= Len(changes)
       /\ SubSeq(changes', 1, Len(changes)) = changes]_vars

C9_Witness ==
    /\ Succeeded("DeleteContract")
    /\ Len(changes) >= 2
    /\ \A k \in DOMAIN changes : changes[k].contract_id = last.batch[1]


-----------------------------------------------------------------------------
(* The spellings of the two allow-listed statuses, Publicada and           *)
(* Evaluación Previa, that the bounded tables hold (after trimming).       *)
AllowListed ==
    {<<"P", "u", "b", "l", "i", "c", "a", "d", "a">>,
     <<"P", "U", "B", "L", "I", "C", "A", "D", "A">>,
     <<"E", "v", "a", "l", "u", "a", "c", "i", "xC3", "xB3", "n", " ", "P", "r", "e", "v", "i", "a">>,
     <<"E", "V", "A", "L", "U", "A", "C", "I", "xC3", "x93", "N", " ", "P", "R", "E", "V", "I", "A">>}

(* The fields of a contract that come from the table row. *)
RowFields(c) ==
    [ID |-> c.ID, Description |-> c.Description, ContractType |-> c.ContractType,
     Status |-> c.Status, Amount |-> c.Amount, SubmissionDate |-> c.SubmissionDate,
     ContractingBody |-> c.ContractingBody]

RowFieldsOf(cs) == [k \in 1..Len(cs) |-> RowFields(cs[k])]

HasAllowListedStatus(c) == c.Status \in AllowListed

(* C10: once both passes have run on a table, every contract of the        *)
(* filtered pass is a contract of the unfiltered pass, the filtered result *)
(* is the unfiltered result restricted to the contracts whose status is,   *)
(* case-insensitively, Publicada or Evaluación Previa, and a row yields a  *)
(* filtered contract exactly when it yields an unfiltered contract with    *)
(* such a status.                                                          *)
C10_Original ==
    pass = "all" =>
        LET F == extracted.filtered
            A == extracted.unfiltered
        IN  /\ \A k \in 1..Len(F) : \E m \in 1..Len(A) : RowFields(F[k]) = RowFields(A[m])
            /\ RowFieldsOf(F) = RowFieldsOf(SelectSeq(A, HasAllowListedStatus))
            /\ \A i \in 0..(Len(renderedRows) - 1) :
                   (\E k \in 1..Len(F) : extracted.filteredRows[k] = i)
                   <=> (\E m \in 1..Len(A) : /\ extracted.unfilteredRows[m] = i
                                             /\ HasAllowListedStatus(A[m]))


-----------------------------------------------------------------------------
(* The header keywords as the page writes them, in lower case. *)
HeaderWords ==
    {<<"e", "x", "p", "e", "d", "i", "e", "n", "t", "e">>,
     <<"t", "i", "p", "o">>,
     <<"e", "s", "t", "a", "d", "o">>,
     <<"i", "m", "p", "o", "r", "t", "e">>,
     <<"p", "r", "e", "s", "e", "n", "t", "a", "c", "i", "xC3", "xB3", "n">>,
     <<"xC3", "xB3", "r", "g", "a", "n", "o">>}

HasHeaderWord(row) ==
    \E j \in 1..Len(row) : \E w \in HeaderWords : Contains(ToLower(row[j]), w)

(* C11, as stated: a row is discarded as a header only if it is the row at *)
(* index 0 of the results table and one of its cells contains, in any      *)
(* letter case, a header keyword; no row at another position of the        *)
(* rendered table is discarded as a header, in either pass.                *)
C11_Original ==
    pass = "all" =>
        \A r \in extracted.filteredHeader \cup extracted.unfilteredHeader :
            r = 0 /\ HasHeaderWord(renderedRows[r + 1])


(* The rendered rows that gave a contract to a pass. *)
Contributors(rowsOfPass) == {rowsOfPass[k] : k \in 1..Len(rowsOfPass)}

(* C12, as stated: a row with fewer than 6 cells contributes a contract to *)
(* neither the filtered nor the unfiltered result, and every row with at   *)
(* least 6 cells that is not a header (the row at index 0 with a header    *)
(* keyword in a cell) contributes a contract to the unfiltered result.     *)
C12_Original ==
    pass = "all" =>
        \A r \in 0..(Len(renderedRows) - 1) :
            LET row == renderedRows[r + 1]
            IN  /\ Len(row) < 6 =>
                      /\ r \notin Contributors(extracted.filteredRows)
                      /\ r \notin Contributors(extracted.unfilteredRows)
                /\ (Len(row) >= 6 /\ ~(r = 0 /\ HasHeaderWord(row))) =>
                      r \in Contributors(extracted.unfilteredRows)


-----------------------------------------------------------------------------
(* The patterns that match the text s, by their place in the list. *)
MatchingPatterns(s) == {k \in 1..Len(patterns) : FindSubmatch(patterns[k], s) > 0}

Least(K) == CHOOSE k \in K : \A m \in K : k <= m

SplitResult == Split(splitting.id, splitting.description)

(* C13: the split is a function of the text alone and is the result of the *)
(* first step that succeeds in the order (1) identifier patterns in their  *)
(* listed order, the first matching pattern winning, (2) description-      *)
(* opening word, (3) capital letter after a non-alphanumeric character,    *)
(* (4) 30-character prefix; "10892/2024Suministro de material para         *)
(* pantallas" gives 10892/2024 and "S-02968-2025Contratación de servicio   *)
(* de instalación" gives S-02968-2025.                                     *)
C13_SplitCascade ==
    splitting.done =>
        LET s == TrimSpace(splitting.text)
            K == MatchingPatterns(s)
            w == ByStarter(s, 1)
            c == ByCapital(s, 1)
        IN  /\ SplitResult = parseContractIDAndDescription(splitting.text)
            /\ K # {} =>
                  LET end == FindSubmatch(patterns[Least(K)], s)
                  IN  /\ splitting.by = "pattern"
                      /\ splitting.id = Slice(s, 0, end)
                      /\ splitting.description = TrimSpace(Slice(s, end, Len(s)))
            /\ (K = {} /\ w # << >>) =>
                  splitting.by = "starter" /\ SplitResult = w[1]
            /\ (K = {} /\ w = << >> /\ c # << >>) =>
                  splitting.by = "capital" /\ SplitResult = c[1]
            /\ (K = {} /\ w = << >> /\ c = << >>) =>
                  splitting.by = "prefix" /\ SplitResult = ByPrefix(s)
            /\ splitting.text = Scenario1 =>
                  /\ splitting.id = <<"1", "0", "8", "9", "2", "/", "2", "0", "2", "4">>
                  /\ splitting.description =
                        SubSeq(Scenario1, 11, Len(Scenario1))
            /\ splitting.text = Scenario2 =>
                  /\ splitting.id = <<"S", "-", "0", "2", "9", "6", "8", "-", "2", "0", "2", "5">>
                  /\ splitting.description =
                        SubSeq(Scenario2, 13, Len(Scenario2))

C13_Witness ==
    /\ splitting.done
    /\ Cardinality(MatchingPatterns(TrimSpace(splitting.text))) >= 2
    /\ ByStarter(TrimSpace(splitting.text), 1) # << >>
    /\ ByStarter(TrimSpace(splitting.text), 1)[1] # SplitResult

(* The description-opening words as the page writes them. *)
OpeningWords ==
    {<<"S", "u", "m", "i", "n", "i", "s", "t", "r", "o">>,
     <<"A", "d", "q", "u", "i", "s", "i", "c", "i", "xC3", "xB3", "n">>,
     <<"C", "o", "n", "t", "r", "a", "t", "a", "c", "i", "xC3", "xB3", "n">>,
     <<"S", "e", "r", "v", "i", "c", "i", "o", "s">>,
     <<"I", "n", "s", "t", "a", "l", "a", "c", "i", "xC3", "xB3", "n">>,
     <<"A", "l", "q", "u", "i", "l", "e", "r">>,
     <<"C", "o", "m", "p", "r", "a">>,
     <<"A", "d", "j", "u", "d", "i", "c", "a", "c", "i", "xC3", "xB3", "n">>,
     <<"E", "j", "e", "c", "u", "c", "i", "xC3", "xB3", "n">>,
     <<"D", "e", "s", "a", "r", "r", "o", "l", "l", "o">>,
     <<"I", "m", "p", "l", "e", "m", "e", "n", "t", "a", "c", "i", "xC3", "xB3", "n">>,
     <<"M", "a", "n", "t", "e", "n", "i", "m", "i", "e", "n", "t", "o">>,
     <<"R", "e", "p", "a", "r", "a", "c", "i", "xC3", "xB3", "n">>,
     <<"R", "e", "n", "o", "v", "a", "c", "i", "xC3", "xB3", "n">>,
     <<"A", "m", "p", "l", "i", "a", "c", "i", "xC3", "xB3", "n">>,
     <<"M", "e", "j", "o", "r", "a">>,
     <<"M", "o", "d", "e", "r", "n", "i", "z", "a", "c", "i", "xC3", "xB3", "n">>,
     <<"E", "q", "u", "i", "p", "a", "m", "i", "e", "n", "t", "o">>,
     <<"D", "o", "t", "a", "c", "i", "xC3", "xB3", "n">>}

(* The offset of the leftmost occurrence of an opening word in s, or -1. *)
LeftmostOpening(s) ==
    LET at == {Index(s, w) : w \in OpeningWords} \ {-1}
    IN  IF at = {} THEN -1 ELSE Least(at)

(* C14, as stated: when no pattern matches, step 2 looks at the leftmost   *)
(* occurrence of any description-opening word: if the text before it is at *)
(* most 50 characters and contains a digit, '/' or '-', the identifier is  *)
(* the text before that occurrence and the description starts at it.       *)
C14_Original ==
    splitting.done =>
        LET s      == TrimSpace(splitting.text)
            at     == LeftmostOpening(s)
            before == Slice(s, 0, at)
        IN  (/\ MatchingPatterns(s) = {}
             /\ at >= 0
             /\ Len(before) <= 50
             /\ \/ ContainsAny(before, Digits)
                \/ Contains(before, <<"/">>)
                \/ Contains(before, <<"-">>))
            => /\ splitting.id = TrimSpace(before)
               /\ splitting.description = TrimSpace(Slice(s, at, Len(s)))


-----------------------------------------------------------------------------
(* C15, as stated: for every contract passed to the enhancement, if        *)
(* storage holds a non-empty Pliego (Anuncio) link for its identifier, the *)
(* returned contract's Pliego (Anuncio) link is non-empty, whatever the    *)
(* outcome of the visit: links found, one found, none found, visit failed  *)
(* or visit skipped.                                                       *)
C15_Original ==
    enhancing.done =>
        \A i \in 1..Len(enhancing.contracts) :
            LET id == enhancing.contracts[i].ID
            IN  id \in DOMAIN enhancing.storage =>
                    /\ enhancing.storage[id].PliegoLink # NoLink
                          => enhancing.enhancedContracts[i].PliegoLink # NoLink
                    /\ enhancing.storage[id].AnuncioLink # NoLink
                          => enhancing.enhancedContracts[i].AnuncioLink # NoLink


(* The stored row has both document links and the lookup returns it. *)
BothKnown(i) ==
    LET id == enhancing.contracts[i].ID
    IN  /\ ~enhancing.lookupFails[i]
        /\ id \in DOMAIN enhancing.storage
        /\ enhancing.storage[id].PliegoLink # NoLink
        /\ enhancing.storage[id].AnuncioLink # NoLink

(* C17: the enhancement never aborts on a per-contract failure: for any    *)
(* batch and any pattern of lookup or detail-page failures it returns no   *)
(* error and a list of the same length and order as the input, in which    *)
(* every field other than the two document links equals the input          *)
(* contract's, and the contracts after a failing one are still processed.  *)
C17_EnhanceNeverAborts ==
    enhancing.done =>
        /\ ~enhancing.err
        /\ Len(enhancing.enhancedContracts) = Len(enhancing.contracts)
        /\ \A i \in 1..Len(enhancing.contracts) :
              LET in  == enhancing.contracts[i]
                  out == enhancing.enhancedContracts[i]
              IN  /\ out.ID = in.ID
                  /\ out.Status = in.Status
                  /\ out.Link = in.Link
                  /\ enhancing.visited[i] = (in.Link # NoLink /\ ~BothKnown(i))
                  /\ (enhancing.visited[i] /\ ~enhancing.visits[i].err
                      /\ enhancing.visits[i].pliegoLink # NoLink)
                        => out.PliegoLink = enhancing.visits[i].pliegoLink

C17_Witness ==
    /\ enhancing.done
    /\ Len(enhancing.contracts) = 2
    /\ enhancing.visited[1]
    /\ enhancing.visits[1].err
    /\ enhancing.lookupFails[2]
    /\ enhancing.visited[2]
    /\ enhancing.enhancedContracts[2].PliegoLink = FoundPliego


-----------------------------------------------------------------------------
(* The two categories of document types as the page writes them. *)
NamesPliego(documentType) == Contains(ToLower(documentType), pliego)

NamesAnuncio(documentType) ==
    \/ Contains(ToLower(documentType), anuncio)
    \/ Contains(ToLower(documentType), <<"l", "i", "c", "i", "t", "a", "c", "i", "xC3", "xB3", "n">>)
    \/ Contains(ToLower(documentType), <<"r", "e", "c", "t", "i", "f", "i", "c", "a", "c", "i", "xC3", "xB3", "n">>)

(* The href of the first document link of the page whose type is in the    *)
(* category, or no link.                                                   *)
FirstOf(anchors, InCategory(_)) ==
    LET at == {i \in 1..Len(anchors) :
                  IsDocumentLink(anchors[i]) /\ InCategory(anchors[i].tipoDocumento[1])}
    IN  IF at = {} THEN NoLink ELSE anchors[Least(at)].href[1]

(* C16, as stated: when a detail page has several marker-class document    *)
(* links whose document type is in the same category (Pliego: contains     *)
(* "pliego"; Anuncio: contains "anuncio", "licitación" or                  *)
(* "rectificación"), ExtractDocumentLinks returns for the category the     *)
(* href of the first of them in document order; a link without the marker  *)
(* class, the document-retrieval endpoint or a document-type cell is never *)
(* returned.                                                               *)
C16_Original ==
    detail.done =>
        /\ detail.pliegoLink = FirstOf(detail.anchors, NamesPliego)
        /\ detail.anuncioLink = FirstOf(detail.anchors, NamesAnuncio)


-----------------------------------------------------------------------------
(* The steps of a run in the order of ScrapeLEDContracts. *)
Steps ==
    <<"NavigateToSearchForm", "EnterCPVCode", "ClickAnadirButton", "ClickBuscarButton",
      "WaitForResults", "ExtractContracts">>

NavigationSteps == {Steps[k] : k \in 1..5}

IsPrefix(a, b) == Len(a) <= Len(b) /\ a = SubSeq(b, 1, Len(a))

RunFailed == nav.err # NoErr

(* C18: the steps of a run are invoked in the fixed order load form, enter *)
(* code, add filter, submit, await results, extract, each at most once; if *)
(* a step returns an error, no later step is invoked and the run returns   *)
(* that step's error with no contracts.                                    *)
C18_StepsInOrder ==
    /\ [](/\ IsPrefix(nav.invoked, Steps)
          /\ RunFailed => /\ nav.pc = "returned"
                       /\ nav.contracts = << >>
                       /\ nav.err.step = nav.invoked[Len(nav.invoked)])
    /\ [][RunFailed => nav' = nav]_vars

(* The add-filter step failed: the run ended there. *)
C18_Witness ==
    /\ nav.pc = "returned"
    /\ nav.err.step = "ClickAnadirButton"
    /\ nav.invoked = SubSeq(Steps, 1, 3)

(* C19, as stated: a navigation step returns an error only when the        *)
(* control it needs cannot be located by any of its locator strategies.    *)
C19_Original ==
    nav.err.step \in NavigationSteps => nav.driver.located = {}

(* C19, amended: a navigation step returns an error only when a browser    *)
(* command it depends on fails: loading the form page (load form),         *)
(* locating the control by every locator strategy (enter code, add filter, *)
(* submit), clearing or typing into the located field (enter code), or     *)
(* clicking the located button (add filter, submit); a failed screenshot   *)
(* or page dump fails no step, and await results returns no error.         *)
C19_OnlyBrowserFailures ==
    nav.err.step \in NavigationSteps =>
        LET d == nav.driver
        IN  CASE nav.err.step = "NavigateToSearchForm" -> "Get" \in d.fails
              [] nav.err.step = "EnterCPVCode" ->
                    d.located = {} \/ d.fails \cap {"Clear", "SendKeys"} # {}
              [] nav.err.step \in {"ClickAnadirButton", "ClickBuscarButton"} ->
                    d.located = {} \/ "Click" \in d.fails
              [] OTHER -> FALSE

(* The submit button was located and the click on it failed. *)
C19_Witness ==
    /\ nav.err.step = "ClickBuscarButton"
    /\ nav.driver.located # {}
    /\ "Click" \in nav.driver.fails

-----------------------------------------------------------------------------
(* The step invoked last, if any. *)
LastInvoked == IF nav.invoked = << >> THEN "" ELSE nav.invoked[Len(nav.invoked)]

(* C23, as stated: the locator strategies of a control are tried in their  *)
(* declared order and the first that finds an element is used; when none   *)
(* finds the control, whatever the page source (empty or very short        *)
(* included), the step returns an error to the caller and extraction is    *)
(* never reached.                                                          *)
C23_Original ==
    /\ LastInvoked \in {"EnterCPVCode", "ClickAnadirButton", "ClickBuscarButton"}
    /\ nav.driver.located = {}
    => /\ nav.pc = "returned"
       /\ nav.err.step = LastInvoked
       /\ nav.err.cause # Nil

(* C30, as stated: WaitForResults stops polling at the first poll in which *)
(* the results table is present on the page, whatever text the body of the *)
(* page contains.                                                          *)
C30_Original ==
    nav.waiting = "polling" /\ nav.polled # << >> => ~nav.polled[1].table


-----------------------------------------------------------------------------
(* The lookup follows a committed save of a batch. *)
LookedUpAfterSave ==
    roundTrip.op = "GetContractByID" /\ ~roundTrip.err /\ roundTrip.saved # << >>

(* The positions of the saved batch that hold the identifier looked up. *)
SavedAt == {k \in 1..Len(roundTrip.saved) : roundTrip.saved[k].ID = roundTrip.id}

Greatest(K) == CHOOSE k \in K : \A m \in K : m <= k

(* C22, as stated: after SaveContracts(batch) succeeds, GetContractByID of *)
(* the identifier of any contract c of the batch returns a record whose    *)
(* ten fields equal those of c; GetContractByID of an identifier with no   *)
(* stored row returns no record and no error.                              *)
C22_Original ==
    /\ LookedUpAfterSave =>
          \A k \in SavedAt : roundTrip.got = <<roundTrip.saved[k]>>
    /\ roundTrip.op = "GetContractByID" /\ ~roundTrip.err
       /\ roundTrip.id \notin DOMAIN roundTrip.table => roundTrip.got = << >>

(* C22, amended: after SaveContracts(batch) succeeds, GetContractByID of   *)
(* an identifier of the batch returns a record whose ten fields equal      *)
(* those of the last contract of the batch with that identifier;           *)
(* GetContractByID of an identifier with no stored row returns no record   *)
(* and no error.                                                           *)
C22_RoundTrip ==
    /\ LookedUpAfterSave /\ SavedAt # {} =>
          roundTrip.got = <<roundTrip.saved[Greatest(SavedAt)]>>
    /\ roundTrip.op = "GetContractByID" /\ ~roundTrip.err
       /\ roundTrip.id \notin DOMAIN roundTrip.table => roundTrip.got = << >>

(* A batch held the identifier twice with different fields, and the lookup *)
(* returned the second of the two.                                         *)
C22_Witness ==
    /\ LookedUpAfterSave
    /\ Cardinality(SavedAt) = 2
    /\ roundTrip.saved[1] # roundTrip.saved[2]
    /\ roundTrip.got = <<roundTrip.saved[2]>>


-----------------------------------------------------------------------------
(* The positions of the StatusChange rows of a contract, in order. *)
RowsFor(id) == {k \in 1..Len(changes) : changes[k].contract_id = id}

(* C26, as stated: after any sequence of successful SaveContracts and      *)
(* CheckAndUpdateStatusChanges calls with no deletions, for every stored   *)
(* contract with a StatusChange row the new status of its most recent row  *)
(* is the stored status, and the old status of each of its rows is the new *)
(* status of the row before it, for all status values, the empty string    *)
(* included.                                                               *)
C26_Original ==
    \A id \in DOMAIN contracts :
        RowsFor(id) # {} =>
            /\ changes[Greatest(RowsFor(id))].new_status = contracts[id].Status
            /\ \A k \in RowsFor(id) :
                  LET before == {j \in RowsFor(id) : j < k}
                  IN  before # {} =>
                          changes[k].old_status = changes[Greatest(before)].new_status


-----------------------------------------------------------------------------
(* The calls of a run by kind. *)
StorageWrites == {"CheckAndUpdateStatusChanges", "SaveContracts"}

StorageReads ==
    {"GetContractByID", "GetNewContracts", "GetContractCount", "GetRecentStatusChanges"}

Automation ==
    {"ScrapeLEDContracts", "ExtractAllContracts", "ExtractDocumentLinksFromContract"}

(* The calls the run has made. *)
CallsMade == {proc.events[k] : k \in 1..Len(proc.events)}

(* The positions of the calls of the run that are of the kind. *)
CallsOf(kind) == {k \in 1..Len(proc.events) : proc.events[k] \in kind}

(* C29, as stated: on every exit path of a run, in both modes, the         *)
(* automation session that was opened is closed before the process ends.   *)
C29_Original ==
    proc.pc = "exit" /\ "NewScraper" \in CallsMade /\ proc.failedAt # "NewScraper"
        => proc.session = "closed"

-----------------------------------------------------------------------------
(* The run left the storage as it found it and sent no notification. *)
NothingStoredOrSent ==
    /\ CallsOf(StorageWrites) = {}
    /\ contracts = proc.startTable
    /\ Len(changes) = proc.n0
    /\ proc.notified = << >>

(* C21, as stated: when a navigation step or an extraction (the filtered   *)
(* or the unfiltered pass) fails, the run stops: no storage mutation is    *)
(* performed and no notification is sent.                                  *)
C21_Original ==
    proc.pc # "idle" /\ (proc.failedAt = "ScrapeLEDContracts" \/ proc.allFailed)
        => NothingStoredOrSent

(* C21, amended: when a navigation step or the filtered extraction fails,  *)
(* the run stops with no storage mutation and no notification; when the    *)
(* unfiltered extraction fails, the run goes on without the status check:  *)
(* CheckAndUpdateStatusChanges is not called.                              *)
C21_StopsOrSkipsCheck ==
    /\ proc.pc # "idle" /\ proc.failedAt = "ScrapeLEDContracts"
          => proc.pc = "exit" /\ NothingStoredOrSent
    /\ proc.pc # "idle" /\ proc.allFailed
          => "CheckAndUpdateStatusChanges" \notin CallsMade

(* The unfiltered extraction failed, and the run saved the filtered        *)
(* contracts and sent the notification.                                    *)
C21_Witness ==
    /\ proc.pc = "exit" /\ proc.allFailed
    /\ proc.saved /\ contracts # proc.startTable
    /\ proc.notified # << >>

(* A navigation step failed and the run ended with the storage as found. *)
C21_WitnessStopped ==
    /\ proc.pc = "exit" /\ proc.failedAt = "ScrapeLEDContracts"
    /\ proc.exit = "fatal" /\ proc.startTable # << >>


-----------------------------------------------------------------------------
(* C24, as stated: within a run every storage call, the reads such as      *)
(* GetContractByID as well as the writes, occurs after the last navigation *)
(* or extraction of the automation session.                                *)
C24_Original ==
    proc.pc # "idle" =>
        \A s \in CallsOf(StorageReads \cup StorageWrites), a \in CallsOf(Automation) : a < s

(* C24, amended: within a run every storage write occurs after the last    *)
(* navigation or extraction of the automation session; the storage calls   *)
(* made earlier are the GetContractByID reads of the enhancement, and each *)
(* detail-page visit directly follows the read for its contract.           *)
C24_WritesAfterAutomation ==
    proc.pc # "idle" =>
        /\ \A w \in CallsOf(StorageWrites), a \in CallsOf(Automation) : a < w
        /\ \A r \in CallsOf(StorageReads), a \in CallsOf(Automation) :
              r < a => proc.events[r] = "GetContractByID"
        /\ \A a \in CallsOf({"ExtractDocumentLinksFromContract"}) :
              a > 1 /\ proc.events[a - 1] = "GetContractByID"

(* A finished run that looked up two contracts, visited the detail page of *)
(* each after its lookup, and then wrote to the storage.                   *)
C24_Witness ==
    /\ proc.pc = "exit" /\ proc.exit = "return"
    /\ Cardinality(CallsOf({"ExtractDocumentLinksFromContract"})) = 2
    /\ CallsOf({"CheckAndUpdateStatusChanges"}) # {}
    /\ CallsOf({"SaveContracts"}) # {}


-----------------------------------------------------------------------------
NoRowAtStart(c) == c.ID \notin DOMAIN proc.startTable

(* C28: the notifier is invoked at most once per run, only after the       *)
(* SaveContracts of the run has committed, only with a non-empty set, and  *)
(* with exactly the filtered contracts whose identifiers had no stored row *)
(* at the start of the run; a failed notification leaves the saved         *)
(* contracts stored.                                                       *)
C28_NotifiesNewOnce ==
    proc.pc # "idle" =>
        /\ Len(proc.notified) <= 1
        /\ Cardinality(CallsOf({"SendNewContractsNotification"})) = Len(proc.notified)
        /\ proc.notified # << >> =>
              /\ proc.saved
              /\ \A n \in CallsOf({"SendNewContractsNotification"}) :
                    \E w \in CallsOf({"SaveContracts"}) : w < n
              /\ proc.notified[1] # << >>
              /\ proc.notified[1] = SelectSeq(proc.contracts, NoRowAtStart)
              /\ [k \in 1..Len(proc.contracts) |-> proc.contracts[k].ID]
                    = [k \in 1..Len(FilteredOf(proc.page)) |-> FilteredOf(proc.page)[k].ID]
        /\ proc.notifyFailed =>
              /\ proc.exit # "fatal"
              /\ \A k \in 1..Len(proc.contracts) :
                    /\ proc.contracts[k].ID \in DOMAIN contracts
                    /\ \E j \in 1..Len(proc.contracts) :
                          /\ proc.contracts[j].ID = proc.contracts[k].ID
                          /\ contracts[proc.contracts[k].ID] = proc.contracts[j]

(* A finished run whose page held a stored and a new contract: the         *)
(* notification carried the new one only, and failed.                      *)
C28_Witness ==
    /\ proc.pc = "exit" /\ proc.exit = "return"
    /\ Len(proc.contracts) = 2
    /\ Len(proc.notified) = 1 /\ Len(proc.notified[1]) = 1
    /\ proc.notifyFailed
    /\ proc.notified[1][1].ID \in DOMAIN contracts


-----------------------------------------------------------------------------
(* The run was a headless run in which both the status check on the        *)
(* unfiltered contracts and the save of the filtered contracts committed.  *)
CheckedAndSaved ==
    /\ proc.pc # "idle" /\ proc.mode = "cli"
    /\ proc.checked = "committed" /\ proc.saved

(* The statuses the observed page shows for the identifier. *)
ObservedStatuses(id) ==
    {proc.page[k].Status : k \in {j \in 1..Len(proc.page) : proc.page[j].ID = id}}

(* The StatusChange rows the run appended for the identifier. *)
AppendedInRun(id) ==
    {k \in (proc.n0 + 1)..Len(changes) : changes[k].contract_id = id}

-----------------------------------------------------------------------------
(* C27, as stated: once a stored contract holds a non-empty Pliego or      *)
(* Anuncio link, every later stored state of the contract holds a          *)
(* non-empty value for that link, in both modes and with or without a      *)
(* detail-page link on the observed contract.                              *)
C27_Original ==
    proc.pc # "idle" =>
        \A id \in DOMAIN proc.startTable :
            /\ proc.startTable[id].PliegoLink # NoLink =>
                  id \in DOMAIN contracts /\ contracts[id].PliegoLink # NoLink
            /\ proc.startTable[id].AnuncioLink # NoLink =>
                  id \in DOMAIN contracts /\ contracts[id].AnuncioLink # NoLink

(* The same for the runs of the headless mode alone. *)
C27_OriginalHeadless == proc.pc # "idle" /\ proc.mode = "cli" => C27_Original

=============================================================================
